---------------------------- MODULE Spec2Model ----------------------------
(***************************************************************************)
(* feed-to-epub: the feed polling and conditional-fetch cache.             *)
(*                                                                         *)
(* The store (src/src/storage.rs) is two SQLite tables, feeds and entries. *)
(* The poll coordinator is FeedReader::fetch_feed, of which the repository *)
(* holds two revisions: src/src/feed_reader/mod.rs (on top of Storage) and *)
(* src/src/feed_reader.rs (the one src/src/main.rs drives, which talks to  *)
(* the feeds table directly).                                              *)
(*                                                                         *)
(* Conventions.  Option<T> is a sequence of length at most one: None is    *)
(* <<>> and Some(x) is <<x>>; SQL NULL is <<>> as well.  A Timestamp is a  *)
(* number of seconds since the epoch.  A TEXT value holding a timestamp is *)
(* a sequence of one-character strings, as written by to_string() and read *)
(* by parse().                                                             *)
(***************************************************************************)
EXTENDS Integers, Sequences, FiniteSets, TLC

VARIABLES
    feeds,      \* the feeds table: a set of rows, id is the INTEGER PRIMARY KEY
    entries,    \* the entries table: a set of rows, id is the INTEGER PRIMARY KEY
    config,     \* FeedReader.config.feeds: feed name -> Feed
    reader,     \* which revision of FeedReader this process runs
    poll,       \* the poll in flight: position in fetch_feed and its locals
    call,       \* the last Storage method called directly, with argument and result
    cycle       \* the fetch_all pass in progress: feeds left, polls made, feeds collected

vars == <<feeds, entries, config, reader, poll, call, cycle>>

None == <<>>
Some(x) == <<x>>

-----------------------------------------------------------------------------
(* Bounds of the model.                                                    *)

\* Timestamps range over the whole hours 0 .. MaxHours, in seconds.
MaxHours == 2
\* A feed document holds at most MaxFeedLen entries.
MaxFeedLen == 3
\* The entries table is explored up to MaxEntryRows rows.
MaxEntryRows == 2
\* The feeds table is explored up to MaxFeedRows rows.
MaxFeedRows == 2

-----------------------------------------------------------------------------
(* Program constants.                                                      *)

SecsPerHour == 3600
\* fetch_feed: `time_diff.as_hours() < 2`
GateHours == 2
\* default_feed_poll_interval_secs
DefaultPollIntervalSecs == 14400
\* entry_from_feed_entry: MAX_SUMMARY_LENGTH_BYTES
MaxSummaryLengthBytes == 1000

Times == {h * SecsPerHour : h \in 0..MaxHours}

-----------------------------------------------------------------------------
(* Timestamp <-> TEXT.                                                     *)

DigitChars == <<"0", "1", "2", "3", "4", "5", "6", "7", "8", "9">>

IsDigit(c) == \E d \in 1..10 : DigitChars[d] = c

DigitValue(c) == (CHOOSE d \in 1..10 : DigitChars[d] = c) - 1

RECURSIVE NatToDigits(_)
NatToDigits(n) ==
    IF n < 10 THEN <<DigitChars[n + 1]>>
    ELSE NatToDigits(n \div 10) \o <<DigitChars[(n % 10) + 1]>>

RECURSIVE DigitsToNat(_)
DigitsToNat(s) ==
    IF s = <<>> THEN 0
    ELSE 10 * DigitsToNat(SubSeq(s, 1, Len(s) - 1)) + DigitValue(s[Len(s)])

\* The number of leading digit characters of s.
RECURSIVE DigitPrefixLen(_)
DigitPrefixLen(s) ==
    IF s = <<>> \/ ~IsDigit(Head(s)) THEN 0 ELSE 1 + DigitPrefixLen(Tail(s))

\* A to_string() that leaves the offset out.
TimestampToStringNoOffset(t) == NatToDigits(t)

\* Timestamp::to_string(): the instant in UTC, with the offset written Z.
TimestampToString(t) == NatToDigits(t) \o <<"Z">>

\* Zoned::to_string() of a timestamp taken to TimeZone::UTC: the instant, its
\* offset and the bracketed time zone annotation.
ZonedToString(t) == NatToDigits(t) \o <<"+00:00", "[UTC]">>

\* str::parse::<Timestamp>(): an instant followed by an offset; a time zone
\* annotation after the offset is accepted and ignored.  None when the text
\* is not a timestamp.
ParseTimestamp(s) ==
    LET n == DigitPrefixLen(s)
        rest == SubSeq(s, n + 1, Len(s))
    IN  IF n = 0 \/ rest = <<>> THEN None
        ELSE IF Head(rest) \notin {"Z", "+00:00"} THEN None
        ELSE IF Len(rest) = 1 \/ (Len(rest) = 2 /\ rest[2] = "[UTC]")
             THEN Some(DigitsToNat(SubSeq(s, 1, n)))
        ELSE None

-----------------------------------------------------------------------------
(* The feeds table (Storage, src/src/storage.rs).                          *)

Max(S) == CHOOSE x \in S : \A y \in S : y <= x
Min(S) == CHOOSE x \in S : \A y \in S : x <= y

\* INTEGER PRIMARY KEY given NULL: one more than the largest rowid in use.
NextRowid(table) == IF table = {} THEN 1 ELSE Max({r.id : r \in table}) + 1

\* The rows a `WHERE feed_url = ?` scan yields; the scan walks the table in
\* rowid order, so the first row is the one with the least id.
RowsOfUrl(table, url) == {r \in table : r.feed_url = url}

FirstRowOfUrl(table, url) ==
    LET rows == RowsOfUrl(table, url)
    IN  CHOOSE r \in rows : r.id = Min({x.id : x \in rows})

\* A subselect without its WHERE clause: the id of the first row of the table.
SelectIdOfFirstRow(table, url) ==
    IF table = {} THEN None ELSE Some(Min({r.id : r \in table}))

\* An upsert that binds no id: the key is always NULL.
SelectIdNull(table, url) == None

\* (SELECT id FROM feeds WHERE feed_url = ?1): the first matching id, or NULL.
SelectIdOfUrl(table, url) ==
    IF RowsOfUrl(table, url) = {} THEN None ELSE Some(FirstRowOfUrl(table, url).id)

\* The row -> FeedStats closure of feed_stats_from_db.
FeedStatsOfRow(r, url) ==
    [id |-> r.id,
     url |-> url,
     last_modified |-> r.last_modified,
     last_fetched |-> IF r.last_fetched = None THEN None
                      ELSE ParseTimestamp(r.last_fetched[1]),
     etag |-> r.etag]

\* The stored last_fetched text of the row fails `.parse().expect(..)`.
RowCorrupted(r) == r.last_fetched /= None /\ ParseTimestamp(r.last_fetched[1]) = None

\* A feed_stats_from_db without `.optional()`: no row is QueryReturnedNoRows.
FeedStatsFromDbNoOptional(table, url) ==
    IF RowsOfUrl(table, url) = {} THEN [tag |-> "Err", val |-> None]
    ELSE [tag |-> "Ok", val |-> Some(FeedStatsOfRow(FirstRowOfUrl(table, url), url))]

\* Storage::feed_stats_from_db: Ok(None) when no row has the URL, Ok(Some(_))
\* built from the first such row otherwise; a panic on a corrupted timestamp.
FeedStatsFromDb(table, url) ==
    IF RowsOfUrl(table, url) = {} THEN [tag |-> "Ok", val |-> None]
    ELSE IF RowCorrupted(FirstRowOfUrl(table, url)) THEN [tag |-> "Panic", val |-> None]
    ELSE [tag |-> "Ok", val |-> Some(FeedStatsOfRow(FirstRowOfUrl(table, url), url))]

\* What the store holds for a URL, as a FeedStats, for comparison later on.
StoredStats(table, url) ==
    IF RowsOfUrl(table, url) = {} THEN None
    ELSE Some(FeedStatsOfRow(FirstRowOfUrl(table, url), url))

\* A replace that deletes the row of the key and inserts under a new rowid.
InsertOrReplaceFreshId(table, idOpt, row) ==
    IF idOpt = None
    THEN table \cup {[row EXCEPT !.id = NextRowid(table)]}
    ELSE {r \in table : r.id /= idOpt[1]} \cup {[row EXCEPT !.id = NextRowid(table)]}

\* INSERT OR REPLACE of one feeds row: a row holding the same primary key is
\* deleted, then the new row is inserted; a NULL key takes the next rowid.
InsertOrReplaceFeed(table, idOpt, row) ==
    IF idOpt = None
    THEN table \cup {[row EXCEPT !.id = NextRowid(table)]}
    ELSE {r \in table : r.id /= idOpt[1]} \cup {[row EXCEPT !.id = idOpt[1]]}

\* The parameters feed_stats_to_db binds: the struct's id is not among them,
\* and last_fetched goes through to_string() (or is NULL).
RowOfFeedStats(fs) ==
    [id |-> 0,
     feed_url |-> fs.url,
     last_modified |-> fs.last_modified,
     last_fetched |-> IF fs.last_fetched = None THEN None
                      ELSE Some(TimestampToString(fs.last_fetched[1])),
     etag |-> fs.etag]

\* An upsert that writes only the fields that are present and keeps the
\* stored value of an absent one.
FeedStatsToDbKeepingStale(table, fs) ==
    LET new == RowOfFeedStats(fs)
        old == IF RowsOfUrl(table, fs.url) = {} THEN new ELSE FirstRowOfUrl(table, fs.url)
        Keep(column) == IF new[column] = None THEN old[column] ELSE new[column]
    IN  InsertOrReplaceFeed(table, SelectIdOfUrl(table, fs.url),
            [new EXCEPT !.last_modified = Keep("last_modified"),
                        !.last_fetched = Keep("last_fetched"),
                        !.etag = Keep("etag")])

\* Storage::feed_stats_to_db: the table after the statement.
FeedStatsToDb(table, fs) ==
    InsertOrReplaceFeed(table, SelectIdOfUrl(table, fs.url), RowOfFeedStats(fs))

\* The INSERT of Storage::new_feed_stats_to_db: a bare row, a fresh rowid.
InsertBareFeed(table, url) ==
    table \cup {[id |-> NextRowid(table), feed_url |-> url, last_modified |-> None,
                 last_fetched |-> None, etag |-> None]}

\* Storage::new_feed_stats_to_db: the table after the INSERT and the result of
\* the re-read.
NewFeedStatsToDb(table, url) ==
    LET after == InsertBareFeed(table, url)
        got == FeedStatsFromDb(after, url)
    IN  [table |-> after,
         ret |-> IF got.tag = "Panic" THEN [tag |-> "Panic", val |-> None]
                 ELSE IF got.val = None
                      THEN [tag |-> "Err", val |-> None]
                 ELSE [tag |-> "Ok", val |-> got.val]]

-----------------------------------------------------------------------------
(* Feed entries and the entries table (src/src/storage.rs).                *)

\* String::len() of the summary texts the model uses, in bytes.
ByteLen(s) ==
    CASE s = "" -> 0
      [] s = "sum" -> 3
      [] s = "sum999" -> MaxSummaryLengthBytes - 1
      [] s = "sum1000" -> MaxSummaryLengthBytes
      [] OTHER -> 8

\* DateTime::to_rfc3339() of the entry's `updated`.
ToRfc3339(t) == NatToDigits(t) \o <<"+00:00">>

\* authors.join(","): the names with a separator between neighbours.
RECURSIVE JoinAuthors(_)
JoinAuthors(names) ==
    IF names = <<>> THEN <<>>
    ELSE IF Len(names) = 1 THEN names
    ELSE <<Head(names), ",">> \o JoinAuthors(Tail(names))

\* extract_html_string_from_entry: the content body if the entry has
\* content, else the summary text; an error when there is neither.
ExtractHtmlStringFromEntry(fe) ==
    IF fe.content /= None
    THEN IF fe.content[1].body /= None
         THEN [tag |-> "Ok", val |-> fe.content[1].body[1]]
         ELSE [tag |-> "Err", val |-> "BodyExtractionError"]
    ELSE IF fe.summary /= None
         THEN [tag |-> "Ok", val |-> fe.summary[1]]
         ELSE [tag |-> "Err", val |-> "SummaryExtractionError"]

\* The summary_content of entry_from_feed_entry: the summary when it is
\* shorter than MAX_SUMMARY_LENGTH_BYTES, else the empty string.
SummaryContent(fe) ==
    IF fe.summary /= None /\ ByteLen(fe.summary[1]) < MaxSummaryLengthBytes
    THEN fe.summary[1]
    ELSE ""

\* entry_from_feed_entry: Ok(Entry) or Err(EntryConversionError).
EntryFromFeedEntry(feed_id, fe) ==
    LET content == ExtractHtmlStringFromEntry(fe)
    IN  IF content.tag = "Err" THEN [tag |-> "Err", val |-> None, err |-> content.val]
        ELSE [tag |-> "Ok",
              err |-> "",
              val |-> Some([feed_id |-> feed_id,
                            feed_entry_id |-> Some(fe.id),
                            title |-> IF fe.title = None THEN "" ELSE fe.title[1],
                            updated |-> IF fe.updated = None THEN None
                                        ELSE Some(ToRfc3339(fe.updated[1])),
                            authors |-> Some(JoinAuthors(fe.authors)),
                            summary |-> SummaryContent(fe),
                            content |-> content.val])]

\* The entries row an Entry is written as; the statement binds no id.
RowOfEntry(e, id) ==
    [id |-> id, feed_id |-> e.feed_id, feed_entry_id |-> e.feed_entry_id,
     title |-> e.title, updated |-> e.updated, authors |-> e.authors,
     summary |-> e.summary, content |-> e.content]

\* The Entry a row reads back as (entry_from_db's closure).
EntryOfRow(r) ==
    [feed_id |-> r.feed_id, feed_entry_id |-> r.feed_entry_id, title |-> r.title,
     updated |-> r.updated, authors |-> r.authors, summary |-> r.summary,
     content |-> r.content]

\* An upsert into a table that declares feed_entry_id UNIQUE: the rows that
\* hold the new row's feed_entry_id are deleted before it is inserted.
NewEntryToDbUniqueEntryId(table, e) ==
    {r \in table : r.feed_entry_id /= e.feed_entry_id}
        \cup {RowOfEntry(e, NextRowid(table))}

\* Storage::new_entry_to_db: INSERT OR REPLACE with the primary key left NULL.
\* The entries table declares no UNIQUE constraint, so no existing row can
\* conflict with the new one: the row is added under the next rowid.
NewEntryToDb(table, e) == table \cup {RowOfEntry(e, NextRowid(table))}

\* The rows of the entries table holding one (feed_id, feed_entry_id) pair.
RowsOfKey(table, feed_id, feed_entry_id) ==
    {r \in table : r.feed_id = feed_id /\ r.feed_entry_id = feed_entry_id}

-----------------------------------------------------------------------------
(* The environment: configured feeds, feed documents, HTTP responses.      *)

\* Feed entries as the feed parser hands them over (feed_rs::model::Entry).
EntryA ==
    [id |-> "a", title |-> Some("A"), updated |-> None, authors |-> <<"ann">>,
     summary |-> None, content |-> Some([body |-> Some("<p>a</p>")])]

EntryB ==
    [id |-> "b", title |-> None, updated |-> Some(SecsPerHour), authors |-> <<"bob", "cy">>,
     summary |-> Some("sum"), content |-> None]

\* An entry whose content element has no body: its conversion fails.
EntryNoBody ==
    [id |-> "x", title |-> Some("X"), updated |-> None, authors |-> <<>>,
     summary |-> Some("sum"), content |-> Some([body |-> None])]

FeedEntries == {EntryA, EntryB, EntryNoBody}

\* The feed documents a server may serve: up to MaxFeedLen entries.
FeedDocs == UNION {[1..n -> FeedEntries] : n \in 0..MaxFeedLen}

LastModifiedTokens == {"m1"}
ETagTokens == {"e1", "e2"}

OptionOf(S) == {None} \cup {Some(x) : x \in S}

\* What request.call() can come back with: no response at all (a transport
\* failure, the request timeout included), or a response with a status, the
\* two validator headers and a body that is a feed document or not one.
\* Responses with a status of 400 or more carry nothing the code reads.
HttpResponses ==
    [status : {200, 304}, last_modified : OptionOf(LastModifiedTokens),
     etag : OptionOf(ETagTokens), parses : {TRUE}, doc : {<<>>}]
    \cup [status : {200}, last_modified : OptionOf(LastModifiedTokens),
          etag : OptionOf(ETagTokens), parses : {TRUE}, doc : FeedDocs \ {<<>>}]
    \cup [status : {200, 429, 500}, last_modified : {None}, etag : {None},
          parses : {FALSE}, doc : {<<>>}]

\* The names of the configured feeds.
FeedNames == {"blog"}

\* The feeds of a configuration (feed_reader::config::Feed).
FeedConfigs ==
    {[url |-> "https://u1/rss", poll_interval_secs |-> DefaultPollIntervalSecs,
      conditional_type |-> "ETag", download_dir |-> "/d1"],
     [url |-> "https://u1/rss", poll_interval_secs |-> SecsPerHour,
      conditional_type |-> "LastModified", download_dir |-> "/d1"]}

-----------------------------------------------------------------------------
(* FeedReader::fetch_feed (src/src/feed_reader/mod.rs), step by step.      *)

\* The locals of one fetch_feed call.  pre and pre_entries keep what the store
\* held for the feed when the call began; response keeps what came back, arm
\* how it was classified, fault which store operations of the call failed,
\* dir how create_dir_all of the download directory went.
IdlePoll ==
    [pc |-> "idle", feed |-> "", now |-> 0, pre |-> None, pre_entries |-> {},
     feed_stats |-> None,
     dir |-> "", request |-> None, response |-> None, arm |-> "", feed_data |-> None,
     idx |-> 0, fault |-> {}, result |-> None]

Ok(feedOpt) == [tag |-> "Ok", err |-> "", feed |-> feedOpt]
Err(e) == [tag |-> "Err", err |-> e, feed |-> None]

Done(p, pr, res) == [poll EXCEPT ![p] = [pr EXCEPT !.pc = "done", !.result = Some(res)]]

\* SignedDuration::as_hours(): whole hours, truncated toward zero.
AsHours(secs) ==
    IF secs >= 0 THEN secs \div SecsPerHour ELSE -((-secs) \div SecsPerHour)

\* A due-ness test that holds a feed never fetched back as well.
FetchedRecentlyOrNever(feed_stats, now) ==
    \/ feed_stats.last_fetched = None
    \/ AsHours(now - feed_stats.last_fetched[1]) < GateHours

\* The due-ness test of fetch_feed: TRUE when the poll returns early.
FetchedRecently(feed_stats, now) ==
    /\ feed_stats.last_fetched /= None
    /\ AsHours(now - feed_stats.last_fetched[1]) < GateHours

\* A header choice that falls back on the other validator when the selected
\* one is absent.
ConditionalHeaderAnyValidator(conditional_type, feed_stats) ==
    IF feed_stats.etag /= None /\ (conditional_type = "ETag" \/ feed_stats.last_modified = None)
    THEN Some(<<"ETag", feed_stats.etag[1]>>)
    ELSE IF feed_stats.last_modified /= None
         THEN Some(<<"If-Modified-Since", feed_stats.last_modified[1]>>)
         ELSE None

\* The validator header fetch_feed sets on the request, if any.
ConditionalHeader(conditional_type, feed_stats) ==
    IF conditional_type = "ETag"
    THEN IF feed_stats.etag /= None THEN Some(<<"ETag", feed_stats.etag[1]>>) ELSE None
    ELSE IF feed_stats.last_modified /= None
         THEN Some(<<"If-Modified-Since", feed_stats.last_modified[1]>>)
         ELSE None

\* A call() that hands every response back as Ok, whatever its status.
CallSucceedsAnyStatus(status) == TRUE

\* ureq's Request::call(): Ok(response) for a status below 400, and
\* Err(ureq::Error::Status) for 400 and above.
CallSucceeds(status) == status < 400

\* How the answer of request.call() is dealt with: the Err of call() leaves
\* through `?`, an Ok response goes to an arm of `match response.status()`.
ArmOfCall(status) ==
    IF ~CallSucceeds(status) THEN "transport_error"
    ELSE IF status = 304 THEN "not_modified"
    ELSE IF status = 429 THEN "rate_limited"
    ELSE "fresh"

\* The arm of `match response.status()` taken.
StatusArm(status) ==
    IF status = 304 THEN "not_modified"
    ELSE IF status = 429 THEN "rate_limited"
    ELSE "fresh"

\* The validators after the headers of a fresh response are copied over.
WithResponseValidators(feed_stats, resp) ==
    [feed_stats EXCEPT
        !.last_modified = IF resp.last_modified /= None THEN resp.last_modified ELSE @,
        !.etag = IF resp.etag /= None THEN resp.etag ELSE @]

\* The entries of a document whose conversion succeeds, converted, in order.
ConvertedEntries(feed_id, doc) ==
    SelectSeq([i \in 1..Len(doc) |-> EntryFromFeedEntry(feed_id, doc[i])],
              LAMBDA c : c.tag = "Ok")

\* Lines 81-89: read the feed's FeedStats, or find that it has none.
Load(p, f, now) ==
    /\ reader = "storage"
    /\ poll[p].pc = "idle"
    /\ f \in DOMAIN config
    /\ LET got == FeedStatsFromDb(feeds, config[f].url)
           pr == [IdlePoll EXCEPT !.feed = f, !.now = now, !.pre_entries = entries,
                                  !.pre = StoredStats(feeds, config[f].url)]
       IN  /\ got.tag = "Ok"
           /\ poll' = [poll EXCEPT ![p] =
                        IF got.val = None THEN [pr EXCEPT !.pc = "create"]
                        ELSE [pr EXCEPT !.pc = "gate", !.feed_stats = got.val]]
    /\ UNCHANGED <<feeds, entries, config, reader, call, cycle>>

\* A load-or-create that makes up the FeedStats of a new feed without
\* inserting its row.
CreateWithoutRow(p) ==
    /\ poll[p].pc = "create"
    /\ Cardinality(feeds) < MaxFeedRows
    /\ poll' = [poll EXCEPT ![p].pc = "gate",
                            ![p].feed_stats =
                                Some([id |-> NextRowid(feeds), url |-> config[poll[p].feed].url,
                                      last_modified |-> None, last_fetched |-> None,
                                      etag |-> None])]
    /\ UNCHANGED <<feeds, entries, config, reader, call, cycle>>

\* Lines 86-88: new_feed_stats_to_db for a feed with no row.
Create(p) ==
    /\ poll[p].pc = "create"
    /\ Cardinality(feeds) < MaxFeedRows
    /\ LET new == NewFeedStatsToDb(feeds, config[poll[p].feed].url)
       IN  /\ new.ret.tag /= "Panic"
           /\ feeds' = new.table
           /\ poll' = IF new.ret.tag = "Ok"
                      THEN [poll EXCEPT ![p].pc = "gate", ![p].feed_stats = new.ret.val]
                      ELSE Done(p, poll[p], Err("StorageNewFeedError"))
    /\ UNCHANGED <<entries, config, reader, call, cycle>>

\* What fs::create_dir_all(download_dir) can come back with.
DirOutcomes == {"created", "failed"}

\* A poll that returns the io error of create_dir_all.
GateStopsWithoutDir(p) ==
    /\ poll[p].pc = "gate"
    /\ \E dir \in DirOutcomes :
        LET pr == [poll[p] EXCEPT !.dir = dir]
            fs == pr.feed_stats[1]
            feed == config[pr.feed]
        IN  poll' = IF dir = "failed" THEN Done(p, pr, Err("IoError"))
                    ELSE IF FetchedRecently(fs, pr.now)
                    THEN Done(p, pr, Ok(None))
                    ELSE [poll EXCEPT ![p] =
                            [pr EXCEPT !.pc = "await",
                                       !.request =
                                          Some([url |-> feed.url,
                                                header |-> ConditionalHeader(
                                                    feed.conditional_type, fs)])]]
    /\ UNCHANGED <<feeds, entries, config, reader, call, cycle>>

\* Lines 91-128: create_dir_all (its failure is only reported), the due-ness
\* test, and the request with its validator header, which is then sent.
Gate(p) ==
    /\ poll[p].pc = "gate"
    /\ \E dir \in DirOutcomes :
        LET pr == [poll[p] EXCEPT !.dir = dir]
            fs == pr.feed_stats[1]
            feed == config[pr.feed]
        IN  poll' = IF FetchedRecently(fs, pr.now)
                    THEN Done(p, pr, Ok(None))
                    ELSE [poll EXCEPT ![p] =
                            [pr EXCEPT !.pc = "await",
                                       !.request =
                                          Some([url |-> feed.url,
                                                header |-> ConditionalHeader(
                                                    feed.conditional_type, fs)])]]
    /\ UNCHANGED <<feeds, entries, config, reader, call, cycle>>

\* A transport failure after which the attempt is stamped as a fetch.
TransportFailureStampsFetch(p) ==
    /\ poll[p].pc = "await"
    /\ poll' = Done(p, poll[p], Err("HTTPError"))
    /\ feeds' = {IF r.feed_url = config[poll[p].feed].url
                 THEN [r EXCEPT !.last_fetched = Some(TimestampToString(poll[p].now))]
                 ELSE r : r \in feeds}
    /\ UNCHANGED <<entries, config, reader, call, cycle>>

\* request.call() with no response: a transport failure, the timeout included
\* (feed_reader/mod.rs line 130, feed_reader.rs lines 101-120).
TransportFailure(p) ==
    /\ poll[p].pc = "await"
    /\ poll' = Done(p, poll[p], Err("HTTPError"))
    /\ UNCHANGED <<feeds, entries, config, reader, call, cycle>>

\* The rows a fresh document would add stay within the explored table size.
FitsEntries(resp) ==
    Cardinality(entries) + Len(ConvertedEntries(0, resp.doc)) <= MaxEntryRows

\* Lines 130-152 and 174-179: the response arrives and is classified.
Respond(p, resp) ==
    /\ reader = "storage"
    /\ poll[p].pc = "await"
    /\ FitsEntries(resp)
    /\ LET pr == [poll[p] EXCEPT !.response = Some(resp), !.arm = ArmOfCall(resp.status)]
       IN  poll' =
             IF ~CallSucceeds(resp.status) THEN Done(p, pr, Err("HTTPError"))
             ELSE IF StatusArm(resp.status) /= "fresh"
                  THEN Done(p, pr, Err("EntryConversionError"))
             ELSE LET fresh == [pr EXCEPT !.feed_stats =
                                    Some(WithResponseValidators(@[1], resp))]
                  IN  IF ~resp.parses THEN Done(p, fresh, Err("FeedParseError"))
                      ELSE [poll EXCEPT ![p] = [fresh EXCEPT !.pc = "ingest",
                                                             !.feed_data = Some(resp.doc),
                                                             !.idx = 1]]
    /\ UNCHANGED <<feeds, entries, config, reader, call, cycle>>

\* An ingestion that gives the whole poll up at the first conversion error.
IngestAbortsOnError(p) ==
    /\ poll[p].pc = "ingest"
    /\ poll[p].idx <= Len(poll[p].feed_data[1])
    /\ LET pr == poll[p]
           conv == EntryFromFeedEntry(pr.feed_stats[1].id, pr.feed_data[1][pr.idx])
       IN  IF conv.tag = "Ok"
           THEN /\ entries' = NewEntryToDb(entries, conv.val[1])
                /\ poll' = [poll EXCEPT ![p].idx = @ + 1]
           ELSE /\ entries' = entries
                /\ poll' = Done(p, pr, Err("EntryConversionError"))
    /\ UNCHANGED <<feeds, config, reader, call, cycle>>

\* Lines 155-169: the next entry is converted and, if that succeeds, written;
\* a conversion error is reported and the entry skipped.
Ingest(p) ==
    /\ poll[p].pc = "ingest"
    /\ poll[p].idx <= Len(poll[p].feed_data[1])
    /\ LET pr == poll[p]
           conv == EntryFromFeedEntry(pr.feed_stats[1].id, pr.feed_data[1][pr.idx])
       IN  entries' = IF conv.tag = "Ok" THEN NewEntryToDb(entries, conv.val[1])
                      ELSE entries
    /\ poll' = [poll EXCEPT ![p].idx = @ + 1]
    /\ UNCHANGED <<feeds, config, reader, call, cycle>>

\* Lines 171-173: last_fetched is set from the wall clock (Timestamp::now(),
\* not the poll's `now`), the FeedStats are saved, and the feed is returned.
Save(p, wall) ==
    /\ poll[p].pc = "ingest"
    /\ poll[p].idx > Len(poll[p].feed_data[1])
    /\ LET pr == poll[p]
           fs == [pr.feed_stats[1] EXCEPT !.last_fetched = Some(wall)]
       IN  /\ feeds' = FeedStatsToDb(feeds, fs)
           /\ poll' = Done(p, [pr EXCEPT !.feed_stats = Some(fs)], Ok(pr.feed_data))
    /\ UNCHANGED <<entries, config, reader, call, cycle>>

-----------------------------------------------------------------------------
(* FeedReader::fetch_feed of src/src/feed_reader.rs, the revision main.rs  *)
(* drives.  It reads and writes the feeds table itself.                    *)

\* query_row(..., |r| r.get(0)) into a String: Ok only when a row has the URL
\* and the column of the first such row is not NULL.
ColumnOfUrl(table, url, column) ==
    IF RowsOfUrl(table, url) = {} THEN None ELSE FirstRowOfUrl(table, url)[column]

\* FeedReader::get_last_fetched: the stored text parsed; every failure (no
\* row, a NULL, an unparsable text) is an Err, here None.
GetLastFetched(table, url) ==
    LET text == ColumnOfUrl(table, url, "last_fetched")
    IN  IF text = None THEN None ELSE ParseTimestamp(text[1])

\* The validator header of the request: get_last_modified or get_etag, an
\* Err of which sends the request bare.
LegacyConditionalHeader(table, url, conditional_type) ==
    IF conditional_type = "ETag"
    THEN LET etag == ColumnOfUrl(table, url, "etag")
         IN  IF etag = None THEN None ELSE Some(<<"ETag", etag[1]>>)
    ELSE LET lm == ColumnOfUrl(table, url, "last_modified")
         IN  IF lm = None THEN None ELSE Some(<<"If-Modified-Since", lm[1]>>)

\* Lines 127-147: the row written once the response is in.  The etag column
\* is bound only when the response has both headers; every other statement
\* leaves it (and, without Last-Modified, last_modified) NULL.
LegacyRowOfResponse(url, resp, now) ==
    [id |-> 0,
     feed_url |-> url,
     last_modified |-> resp.last_modified,
     last_fetched |-> Some(ZonedToString(now)),
     etag |-> IF resp.last_modified /= None THEN resp.etag ELSE None]

LegacyWrite(table, url, resp, now) ==
    InsertOrReplaceFeed(table, SelectIdOfUrl(table, url), LegacyRowOfResponse(url, resp, now))

\* Lines 86-123: the due-ness test against Timestamp::now(), then the request.
\* The `conditional` argument is taken from the feed's conditional_type.
\* main.rs lines 43-51 call create_dir_all, and report its failure, before.
LegacyGate(p, f, now) ==
    /\ reader = "legacy"
    /\ poll[p].pc = "idle"
    /\ f \in DOMAIN config
    /\ \E dir \in DirOutcomes :
       LET url == config[f].url
           last == GetLastFetched(feeds, url)
           pr == [IdlePoll EXCEPT !.feed = f, !.now = now, !.pre_entries = entries,
                                  !.pre = StoredStats(feeds, url), !.dir = dir]
       IN  poll' = IF last /= None /\ AsHours(now - last[1]) < GateHours
                   THEN Done(p, pr, Ok(None))
                   ELSE [poll EXCEPT ![p] =
                           [pr EXCEPT !.pc = "await",
                                      !.request =
                                         Some([url |-> url,
                                               header |-> LegacyConditionalHeader(
                                                   feeds, url, config[f].conditional_type)])]]
    /\ UNCHANGED <<feeds, entries, config, reader, call, cycle>>

\* Lines 98-147: the response arrives; a status of 400 or more is the Err of
\* call(); otherwise the row is written with Timestamp::now() as last_fetched.
\* The status of the response has not been matched yet (arm is still "").
LegacyRespond(p, resp, wall) ==
    /\ reader = "legacy"
    /\ poll[p].pc = "await"
    /\ LET pr == [poll[p] EXCEPT !.response = Some(resp),
                                 !.arm = IF CallSucceeds(resp.status) THEN ""
                                         ELSE "transport_error"]
       IN  IF ~CallSucceeds(resp.status)
           THEN /\ poll' = Done(p, pr, Err("HTTPError"))
                /\ UNCHANGED feeds
           ELSE /\ RowsOfUrl(feeds, pr.request[1].url) /= {} \/ Cardinality(feeds) < MaxFeedRows
                /\ feeds' = LegacyWrite(feeds, pr.request[1].url, resp, wall)
                /\ poll' = [poll EXCEPT ![p] = [pr EXCEPT !.pc = "classify"]]
    /\ UNCHANGED <<entries, config, reader, call, cycle>>

\* Lines 149-162: the status decides what is returned.
LegacyClassify(p) ==
    /\ poll[p].pc = "classify"
    /\ LET pr == poll[p]
           resp == pr.response[1]
           arm == StatusArm(resp.status)
           cl == [pr EXCEPT !.arm = arm]
       IN  poll' = IF arm = "not_modified" THEN Done(p, cl, Ok(None))
                   ELSE IF arm = "rate_limited" THEN Done(p, cl, Err("RateLimitError"))
                   ELSE IF ~resp.parses THEN Done(p, cl, Err("InvalidFeedDataError"))
                   ELSE Done(p, [cl EXCEPT !.feed_data = Some(resp.doc)], Ok(Some(resp.doc)))
    /\ UNCHANGED <<feeds, entries, config, reader, call, cycle>>

-----------------------------------------------------------------------------
(* Store operations that fail.  Every rusqlite call of a poll can return   *)
(* Err (a locked or unreadable database file, a full disk); these actions  *)
(* are the paths the code takes then.                                      *)

\* feed_reader/mod.rs lines 81-83: feed_stats_from_db fails and `?` returns.
LoadFails(p, f, now) ==
    /\ reader = "storage"
    /\ poll[p].pc = "idle"
    /\ f \in DOMAIN config
    /\ LET pr == [IdlePoll EXCEPT !.feed = f, !.now = now, !.pre_entries = entries,
                                  !.pre = StoredStats(feeds, config[f].url),
                                  !.fault = {"read"}]
       IN  poll' = Done(p, pr, Err("StorageDBOperationError"))
    /\ UNCHANGED <<feeds, entries, config, reader, call, cycle>>

\* feed_reader/mod.rs lines 86-88 with storage.rs lines 182-186: the INSERT
\* of new_feed_stats_to_db fails, or it succeeds and the re-read fails.
CreateFails(p, inserted) ==
    /\ poll[p].pc = "create"
    /\ Cardinality(feeds) < MaxFeedRows
    /\ feeds' = IF inserted THEN InsertBareFeed(feeds, config[poll[p].feed].url) ELSE feeds
    /\ poll' = Done(p, [poll[p] EXCEPT !.fault = IF inserted THEN {"reread"} ELSE {"insert"}],
                    Err("StorageNewFeedError"))
    /\ UNCHANGED <<entries, config, reader, call, cycle>>

\* feed_reader/mod.rs lines 165-168: new_entry_to_db fails for a converted
\* entry; the error is printed and the iteration goes on.
IngestWriteFails(p) ==
    /\ poll[p].pc = "ingest"
    /\ poll[p].idx <= Len(poll[p].feed_data[1])
    /\ EntryFromFeedEntry(poll[p].feed_stats[1].id, poll[p].feed_data[1][poll[p].idx]).tag = "Ok"
    /\ poll' = [poll EXCEPT ![p].idx = @ + 1, ![p].fault = @ \cup {"entry_write"}]
    /\ UNCHANGED <<feeds, entries, config, reader, call, cycle>>

\* feed_reader/mod.rs line 172: feed_stats_to_db fails and `?` returns.
SaveFails(p) ==
    /\ poll[p].pc = "ingest"
    /\ poll[p].idx > Len(poll[p].feed_data[1])
    /\ poll' = Done(p, [poll[p] EXCEPT !.fault = @ \cup {"stats_write"}],
                    Err("StorageDBOperationError"))
    /\ UNCHANGED <<feeds, entries, config, reader, call, cycle>>

\* feed_reader.rs lines 86-123 when reads fail: an Err of get_last_fetched
\* fails the `if let Ok(..)` and the due-ness test is passed over; an Err of
\* get_last_modified or get_etag takes the `Err(..)` arm, a bare request.
LegacyGateReadFails(p, f, now, failing) ==
    /\ reader = "legacy"
    /\ poll[p].pc = "idle"
    /\ f \in DOMAIN config
    /\ failing /= {}
    /\ \E dir \in DirOutcomes :
       LET url == config[f].url
           last == IF "last_fetched" \in failing THEN None ELSE GetLastFetched(feeds, url)
           header == IF "validator" \in failing THEN None
                     ELSE LegacyConditionalHeader(feeds, url, config[f].conditional_type)
           pr == [IdlePoll EXCEPT !.feed = f, !.now = now, !.pre_entries = entries,
                                  !.pre = StoredStats(feeds, url), !.fault = {"read"},
                                  !.dir = dir]
       IN  poll' = IF last /= None /\ AsHours(now - last[1]) < GateHours
                   THEN Done(p, pr, Ok(None))
                   ELSE [poll EXCEPT ![p] =
                           [pr EXCEPT !.pc = "await",
                                      !.request = Some([url |-> url, header |-> header])]]
    /\ UNCHANGED <<feeds, entries, config, reader, call, cycle>>

\* feed_reader.rs lines 127-147: db.execute fails and `?` returns.
LegacyWriteFails(p, resp) ==
    /\ reader = "legacy"
    /\ poll[p].pc = "await"
    /\ CallSucceeds(resp.status)
    /\ poll' = Done(p, [poll[p] EXCEPT !.response = Some(resp),
                                       !.fault = @ \cup {"stats_write"}],
                    Err("DBError"))
    /\ UNCHANGED <<feeds, entries, config, reader, call, cycle>>

\* fetch_feed has returned; its locals are dropped.
Return(p) ==
    /\ poll[p].pc = "done"
    /\ poll' = [poll EXCEPT ![p] = IdlePoll]
    /\ UNCHANGED <<feeds, entries, config, reader, call, cycle>>

NoCall ==
    [op |-> "", url |-> "", stats |-> None, entry |-> None, arg |-> "", ret |-> None,
     before |-> {}]

\* No fetch_all pass is in progress and none has been made.
NoCycle ==
    [now |-> 0, todo |-> <<>>, polled |-> <<>>, out |-> <<>>, seen |-> {}, epubs |-> <<>>]

\* After FeedReader::new: init_database has created two empty tables.
Init ==
    /\ feeds = {}
    /\ entries = {}
    /\ config \in {[f \in FeedNames |-> c] : c \in FeedConfigs}
    /\ reader \in {"storage", "legacy"}
    /\ poll = [p \in {"main"} |-> IdlePoll]
    /\ call = NoCall
    /\ cycle = NoCycle

\* The processes that may run a FeedReader against the store.
Procs == {"main", "other"}

At(p, pcs) == p \in DOMAIN poll /\ poll[p].pc \in pcs

Next ==
    \/ \E p \in Procs : At(p, {"idle"}) /\ \E f \in FeedNames, now \in Times : Load(p, f, now)
    \/ \E p \in Procs : At(p, {"create"}) /\ Create(p)
    \/ \E p \in Procs : At(p, {"gate"}) /\ Gate(p)
    \/ \E p \in Procs : At(p, {"await"}) /\ TransportFailure(p)
    \/ \E p \in Procs : At(p, {"await"}) /\ \E resp \in HttpResponses : Respond(p, resp)
    \/ \E p \in Procs : At(p, {"ingest"}) /\ Ingest(p)
    \/ \E p \in Procs : At(p, {"ingest"}) /\ \E wall \in Times : Save(p, wall)
    \/ \E p \in Procs : At(p, {"idle"}) /\ \E f \in FeedNames, now \in Times : LegacyGate(p, f, now)
    \/ \E p \in Procs : At(p, {"await"}) /\ reader = "legacy"
                        /\ \E resp \in HttpResponses, wall \in Times : LegacyRespond(p, resp, wall)
    \/ \E p \in Procs : At(p, {"classify"}) /\ LegacyClassify(p)
    \/ \E p \in Procs : At(p, {"done"}) /\ Return(p)

Spec == Init /\ [][Next]_vars

\* What makes a poll move on.  The statements of fetch_feed run one after
\* the other, so a step that depends on nothing outside the process is taken.
\* The wait for the answer ends for the agent of feed_reader/mod.rs, which is
\* built with .timeout(http_request_timeout_secs): the answer arrives or
\* call() returns the timeout as an error.  The agent of feed_reader.rs is
\* built without a timeout, so nothing ends its wait but the server.
PollProgress ==
    \A p \in {"main"} :
        /\ WF_vars(Create(p))
        /\ WF_vars(Gate(p))
        /\ WF_vars(reader = "storage"
                    /\ (TransportFailure(p) \/ \E resp \in HttpResponses : Respond(p, resp)))
        /\ WF_vars(Ingest(p))
        /\ WF_vars(\E wall \in Times : Save(p, wall))
        /\ WF_vars(LegacyClassify(p))

SpecLive == Init /\ [][Next]_vars /\ PollProgress

\* A start on a new database file or on the one an earlier run left behind:
\* the default db_file of feed_reader/mod.rs is the file main.rs opens, and
\* the row of the feed is the bare one of a poll whose fetch failed.
InitRestart ==
    /\ config \in {[f \in FeedNames |-> c] : c \in FeedConfigs}
    /\ feeds \in {{}, InsertBareFeed({}, config["blog"].url)}
    /\ entries = {}
    /\ reader \in {"storage", "legacy"}
    /\ poll = [p \in {"main"} |-> IdlePoll]
    /\ call = NoCall
    /\ cycle = NoCycle

SpecRestart == InitRestart /\ [][Next]_vars

\* The reads that may fail in the gate of feed_reader.rs.
LegacyReads == {"last_fetched", "validator"}

\* The polls against a store whose operations may fail.
NextFaults ==
    \/ Next
    \/ \E p \in Procs : At(p, {"idle"}) /\ \E f \in FeedNames, now \in Times : LoadFails(p, f, now)
    \/ \E p \in Procs : At(p, {"create"}) /\ \E inserted \in BOOLEAN : CreateFails(p, inserted)
    \/ \E p \in Procs : At(p, {"ingest"}) /\ IngestWriteFails(p)
    \/ \E p \in Procs : At(p, {"ingest"}) /\ SaveFails(p)
    \/ \E p \in Procs : At(p, {"idle"}) /\ reader = "legacy"
                        /\ \E f \in FeedNames, now \in Times, failing \in SUBSET LegacyReads :
                                LegacyGateReadFails(p, f, now, failing)
    \/ \E p \in Procs : At(p, {"await"}) /\ reader = "legacy"
                        /\ \E resp \in HttpResponses : LegacyWriteFails(p, resp)

SpecFaults == Init /\ [][NextFaults]_vars

-----------------------------------------------------------------------------
(* The Storage methods called directly, as the unit test of storage.rs     *)
(* calls them.                                                             *)

Urls == {"https://u1/rss", "https://u2/rss"}

\* The FeedStats values handed to feed_stats_to_db: any id, any URL, each
\* optional field present or absent.
FeedStatsInputs ==
    [id : {1, 2}, url : Urls, last_modified : OptionOf(LastModifiedTokens),
     last_fetched : OptionOf({0, Max(Times)}), etag : OptionOf({"e1"})]

\* Storage::feed_stats_to_db(&fs).
CallFeedStatsToDb(fs) ==
    /\ RowsOfUrl(feeds, fs.url) /= {} \/ Cardinality(feeds) < MaxFeedRows
    /\ feeds' = FeedStatsToDb(feeds, fs)
    /\ call' = [op |-> "feed_stats_to_db", url |-> fs.url, stats |-> Some(fs),
                entry |-> None, arg |-> "", ret |-> Some([tag |-> "Ok", val |-> None]),
                before |-> feeds]
    /\ UNCHANGED <<entries, config, reader, poll, cycle>>

\* Storage::new_feed_stats_to_db(url).
CallNewFeedStatsToDb(url) ==
    /\ Cardinality(feeds) < MaxFeedRows
    /\ LET new == NewFeedStatsToDb(feeds, url)
       IN  /\ feeds' = new.table
           /\ call' = [op |-> "new_feed_stats_to_db", url |-> url, stats |-> None,
                       entry |-> None, arg |-> "", ret |-> Some(new.ret), before |-> feeds]
    /\ UNCHANGED <<entries, config, reader, poll, cycle>>

\* Storage::feed_stats_from_db(url).
CallFeedStatsFromDb(url) ==
    /\ call' = [op |-> "feed_stats_from_db", url |-> url, stats |-> None,
                entry |-> None, arg |-> "", ret |-> Some(FeedStatsFromDb(feeds, url)),
                before |-> feeds]
    /\ UNCHANGED <<feeds, entries, config, reader, poll, cycle>>

\* A store no poll is running against.
InitStore ==
    /\ feeds = {}
    /\ entries = {}
    /\ config = [f \in FeedNames |-> CHOOSE c \in FeedConfigs : c.conditional_type = "ETag"]
    /\ reader = "storage"
    /\ poll = [p \in {"main"} |-> IdlePoll]
    /\ call = NoCall
    /\ cycle = NoCycle

NextStore ==
    \/ \E fs \in FeedStatsInputs : CallFeedStatsToDb(fs)
    \/ \E url \in Urls : CallNewFeedStatsToDb(url)
    \/ \E url \in Urls : CallFeedStatsFromDb(url)

SpecStore == InitStore /\ [][NextStore]_vars

\* The Entry values handed to new_entry_to_db.  feed_id is the id of a feeds
\* row, as it is in fetch_feed and in the unit test.
EntryInputs ==
    [feed_id : {r.id : r \in feeds}, feed_entry_id : OptionOf({"a", "b"}), title : {"t"},
     updated : {None}, authors : {Some(<<"ann">>)}, summary : {""},
     content : {"c1", "c2"}]

\* Storage::new_entry_to_db(&e).
CallNewEntryToDb(e) ==
    /\ Cardinality(entries) < MaxEntryRows
    /\ entries' = NewEntryToDb(entries, e)
    /\ call' = [op |-> "new_entry_to_db", url |-> "", stats |-> None,
                entry |-> Some(e), arg |-> "", ret |-> Some([tag |-> "Ok", val |-> None]),
                before |-> feeds]
    /\ UNCHANGED <<feeds, config, reader, poll, cycle>>

\* A store in which two feeds have been given their rows.
InitEntries ==
    /\ feeds = InsertBareFeed(InsertBareFeed({}, "https://u1/rss"), "https://u2/rss")
    /\ entries = {}
    /\ config = [f \in FeedNames |-> CHOOSE c \in FeedConfigs : c.conditional_type = "ETag"]
    /\ reader = "storage"
    /\ poll = [p \in {"main"} |-> IdlePoll]
    /\ call = NoCall
    /\ cycle = NoCycle

\* The feed_entry_id values entry_from_db is asked for: the two ids in use
\* and one no entry carries.
EntryKeys == {"a", "b", "z"}

\* The first row a `WHERE feed_entry_id = ?` scan yields.  A row whose
\* feed_entry_id is NULL matches no key.
RowsOfEntryId(table, feed_entry_id) ==
    {r \in table : r.feed_entry_id = Some(feed_entry_id)}

\* Storage::entry_from_db: query_row hands the first row of the scan to the
\* closure and is an error (QueryReturnedNoRows) when the scan is empty.
EntryFromDb(table, feed_entry_id) ==
    LET rows == RowsOfEntryId(table, feed_entry_id)
    IN  IF rows = {} THEN [tag |-> "Err", val |-> None]
        ELSE [tag |-> "Ok",
              val |-> Some(EntryOfRow(CHOOSE r \in rows : r.id = Min({x.id : x \in rows})))]

\* Storage::entry_from_db(feed_entry_id).
CallEntryFromDb(feed_entry_id) ==
    /\ call' = [op |-> "entry_from_db", url |-> "", stats |-> None, entry |-> None,
                arg |-> feed_entry_id, ret |-> Some(EntryFromDb(entries, feed_entry_id)),
                before |-> feeds]
    /\ UNCHANGED <<feeds, entries, config, reader, poll, cycle>>

\* CREATE TABLE without IF NOT EXISTS on a database from which the table was
\* dropped first: the table starts over empty.
CreateTableAnew(exists, table) == {}

\* CREATE TABLE IF NOT EXISTS: a table that exists is left as it is, a
\* missing one is created empty.
CreateTableIfNotExists(exists, table) == IF exists THEN table ELSE {}

\* Storage::init_database on an open store.  Both tables exist from the
\* first call on, which FeedReader::new makes before anything else.
CallInitDatabase ==
    /\ feeds' = CreateTableIfNotExists(TRUE, feeds)
    /\ entries' = CreateTableIfNotExists(TRUE, entries)
    /\ call' = [op |-> "init_database", url |-> "", stats |-> None, entry |-> None,
                arg |-> "", ret |-> Some([tag |-> "Ok", val |-> None]), before |-> feeds]
    /\ UNCHANGED <<config, reader, poll, cycle>>

NextEntries ==
    \/ \E e \in EntryInputs : CallNewEntryToDb(e)
    \/ \E k \in EntryKeys : CallEntryFromDb(k)
    \/ CallInitDatabase

SpecEntries == InitEntries /\ [][NextEntries]_vars

-----------------------------------------------------------------------------
(* One pass over the configured feeds: FeedReader::fetch_all of            *)
(* src/src/feed_reader/mod.rs, and one turn of the `loop` of main.rs for   *)
(* the reader of src/src/feed_reader.rs.                                   *)

\* Two configured feeds, each with its own URL.
CycleConfig ==
    [f \in {"blog", "news"} |->
        [url |-> IF f = "blog" THEN "https://u1/rss" ELSE "https://u2/rss",
         poll_interval_secs |-> DefaultPollIntervalSecs,
         conditional_type |-> IF f = "blog" THEN "ETag" ELSE "LastModified",
         download_dir |-> "/d1"]]

\* The orders in which config.feeds.iter() may yield the feeds of a HashMap.
IterationOrders(names) ==
    {order \in [1..Cardinality(names) -> names] :
        \A i, j \in DOMAIN order : i /= j => order[i] /= order[j]}

\* What the servers answer during a pass.
CycleResponses ==
    {resp \in HttpResponses :
        /\ resp.last_modified = None
        /\ resp.etag \in {None, Some("e1")}
        /\ resp.doc \in {<<>>, <<EntryA>>}}

\* fetch_all(now) is entered, or the `loop` of main.rs begins a turn.
StartCycle(p, now, order) ==
    /\ cycle.todo = <<>>
    /\ poll[p].pc = "idle"
    /\ cycle' = [cycle EXCEPT !.now = now, !.todo = order, !.polled = <<>>, !.out = <<>>,
                              !.epubs = <<>>]
    /\ UNCHANGED <<feeds, entries, config, reader, poll, call>>

\* feed_reader/mod.rs line 64: fetch_feed for the next feed, with the pass's now.
CyclePoll(p) ==
    /\ cycle.todo /= <<>>
    /\ Load(p, Head(cycle.todo), cycle.now)

\* main.rs line 54: fetch_feed for the next feed; it reads the clock itself.
LegacyCyclePoll(p, wall) ==
    /\ cycle.todo /= <<>>
    /\ LegacyGate(p, Head(cycle.todo), wall)

\* A fetch_all that gives the rest of the pass up when a poll returns Err.
CycleCollectOrAbort(p) ==
    /\ poll[p].pc = "done"
    /\ cycle.todo /= <<>>
    /\ LET res == poll[p].result[1]
       IN  cycle' = [cycle EXCEPT
                        !.todo = IF res.tag = "Err" THEN <<>> ELSE Tail(@),
                        !.polled = Append(@, [feed |-> poll[p].feed, result |-> res]),
                        !.out = IF res.feed /= None THEN Append(@, res.feed[1]) ELSE @,
                        !.seen = @ \cup {poll[p].feed}]
    /\ poll' = [poll EXCEPT ![p] = IdlePoll]
    /\ UNCHANGED <<feeds, entries, config, reader, call>>

\* feed_reader/mod.rs lines 64-70 (main.rs lines 54-60): Ok(feed) is passed
\* on, Some(feed) being kept by filter_map; an Err is printed and becomes
\* None.  The iteration moves to the next feed either way.
CycleCollect(p) ==
    /\ poll[p].pc = "done"
    /\ cycle.todo /= <<>>
    /\ LET res == poll[p].result[1]
       IN  cycle' = [cycle EXCEPT
                        !.todo = Tail(@),
                        !.polled = Append(@, [feed |-> poll[p].feed, result |-> res]),
                        !.out = IF res.tag = "Ok" /\ res.feed /= None
                                THEN Append(@, res.feed[1]) ELSE @,
                        !.seen = @ \cup {poll[p].feed}]
    /\ poll' = [poll EXCEPT ![p] = IdlePoll]
    /\ UNCHANGED <<feeds, entries, config, reader, call>>

InitCycle ==
    /\ feeds = {}
    /\ entries = {}
    /\ config = CycleConfig
    /\ reader \in {"storage", "legacy"}
    /\ poll = [p \in {"main"} |-> IdlePoll]
    /\ call = NoCall
    /\ cycle = NoCycle

NextCycle ==
    \/ \E p \in Procs : At(p, {"idle"})
                        /\ \E now \in Times, order \in IterationOrders(DOMAIN config) :
                                StartCycle(p, now, order)
    \/ \E p \in Procs : At(p, {"idle"}) /\ CyclePoll(p)
    \/ \E p \in Procs : At(p, {"idle"}) /\ \E wall \in Times : LegacyCyclePoll(p, wall)
    \/ \E p \in Procs : At(p, {"create"}) /\ Create(p)
    \/ \E p \in Procs : At(p, {"gate"}) /\ Gate(p)
    \/ \E p \in Procs : At(p, {"await"}) /\ TransportFailure(p)
    \/ \E p \in Procs : At(p, {"await"}) /\ \E resp \in CycleResponses : Respond(p, resp)
    \/ \E p \in Procs : At(p, {"ingest"}) /\ Ingest(p)
    \/ \E p \in Procs : At(p, {"ingest"}) /\ \E wall \in Times : Save(p, wall)
    \/ \E p \in Procs : At(p, {"await"}) /\ reader = "legacy"
                        /\ \E resp \in CycleResponses, wall \in Times : LegacyRespond(p, resp, wall)
    \/ \E p \in Procs : At(p, {"classify"}) /\ LegacyClassify(p)
    \/ \E p \in Procs : At(p, {"done"}) /\ CycleCollect(p)

SpecCycle == InitCycle /\ [][NextCycle]_vars

-----------------------------------------------------------------------------
(* entry_from_feed_entry of src/src/storage.rs called on its own.          *)

\* The feed entries handed to the conversion: with and without a title, with
\* no content, content without a body and content with one, with no summary
\* and with summaries of 0, 3, 999 and 1000 bytes.
ConvertInputs ==
    [id : {"a"}, title : OptionOf({"A"}), updated : {None},
     authors : {<<>>, <<"ann">>, <<"bob", "cy">>},
     summary : OptionOf({"", "sum", "sum999", "sum1000"}),
     content : {None, Some([body |-> None]), Some([body |-> Some("<p>a</p>")])}]

\* entry_from_feed_entry(feed_id, &fe).
CallEntryFromFeedEntry(feed_id, fe) ==
    /\ call' = [op |-> "entry_from_feed_entry", url |-> "", stats |-> None, entry |-> None,
                arg |-> fe, ret |-> Some(EntryFromFeedEntry(feed_id, fe)), before |-> {}]
    /\ UNCHANGED <<feeds, entries, config, reader, poll, cycle>>

NextConvert ==
    \/ \E feed_id \in {1, 2}, fe \in ConvertInputs : CallEntryFromFeedEntry(feed_id, fe)

SpecConvert == InitStore /\ [][NextConvert]_vars

-----------------------------------------------------------------------------
(* Polls of one feed, one after the other, with the last answer that was   *)
(* fresh or 304 Not Modified remembered.                                   *)

\* What the server answers from poll to poll.
PacingResponses ==
    {resp \in HttpResponses :
        /\ resp.last_modified = None
        /\ resp.etag \in {None, Some("e1")}
        /\ resp.doc \in {<<>>, <<EntryA>>}}

\* fetch_feed returns to its caller.  cycle.polled keeps the poll last
\* answered with a document that was handed back or with 304, and when it
\* was made.
PollReturn(p) ==
    /\ poll[p].pc = "done"
    /\ cycle' = [cycle EXCEPT
                    !.polled = IF poll[p].response /= None
                                  /\ \/ poll[p].result[1].feed /= None
                                     \/ poll[p].response[1].status = 304
                               THEN <<[feed |-> poll[p].feed, result |-> poll[p].result[1],
                                       at |-> poll[p].now,
                                       status |-> poll[p].response[1].status]>>
                               ELSE @]
    /\ poll' = [poll EXCEPT ![p] = IdlePoll]
    /\ UNCHANGED <<feeds, entries, config, reader, call>>

InitPacing ==
    /\ feeds = {}
    /\ entries = {}
    /\ config \in {[f \in FeedNames |-> c] : c \in FeedConfigs}
    /\ reader = "storage"
    /\ poll = [p \in {"main"} |-> IdlePoll]
    /\ call = NoCall
    /\ cycle = NoCycle

NextPacing ==
    \/ \E p \in Procs : At(p, {"idle"}) /\ \E f \in FeedNames, now \in Times : Load(p, f, now)
    \/ \E p \in Procs : At(p, {"create"}) /\ Create(p)
    \/ \E p \in Procs : At(p, {"gate"}) /\ Gate(p)
    \/ \E p \in Procs : At(p, {"await"}) /\ TransportFailure(p)
    \/ \E p \in Procs : At(p, {"await"}) /\ \E resp \in PacingResponses : Respond(p, resp)
    \/ \E p \in Procs : At(p, {"ingest"}) /\ Ingest(p)
    \/ \E p \in Procs : At(p, {"ingest"}) /\ Save(p, poll[p].now)
    \/ \E p \in Procs : At(p, {"done"}) /\ PollReturn(p)

SpecPacing == InitPacing /\ [][NextPacing]_vars

-----------------------------------------------------------------------------
(* Loading the configuration: Config::from_reader of                       *)
(* src/src/feed_reader_v2/config.rs.                                       *)

\* The least poll_interval_secs from_reader accepts.
MinPollIntervalSecs == 3600

\* The [feeds.<name>] tables a configuration file may hold.
TomlFeedNames == {"a", "b", "c"}

\* What a [feeds.<name>] table says: poll_interval_secs may be left out.
TomlFeeds ==
    [url : {"https://u1/rss"},
     poll_interval_secs : OptionOf({MinPollIntervalSecs - 1, MinPollIntervalSecs,
                                    MinPollIntervalSecs + 1}),
     conditional_type : {None}, download_dir : {"/d1"}]

\* The configuration files read: any set of feed tables.
TomlDocs == UNION {[names -> TomlFeeds] : names \in SUBSET TomlFeedNames}

\* serde's view of a feed table: default_feed_poll_interval_secs fills in a
\* poll_interval_secs that was left out.
DeserializeFeed(t) ==
    [url |-> t.url,
     poll_interval_secs |-> IF t.poll_interval_secs = None THEN DefaultPollIntervalSecs
                            ELSE t.poll_interval_secs[1],
     conditional_type |-> t.conditional_type,
     download_dir |-> t.download_dir]

\* A check that turns away an interval of exactly one hour as well.
FromReaderAboveAnHour(toml) ==
    LET parsed == [f \in DOMAIN toml |-> DeserializeFeed(toml[f])]
        too_fast_feeds ==
            {f \in DOMAIN parsed : parsed[f].poll_interval_secs <= MinPollIntervalSecs}
    IN  IF too_fast_feeds /= {}
        THEN [tag |-> "Err", err |-> "PollIntervalTooFastError", feeds |-> too_fast_feeds,
              val |-> None]
        ELSE [tag |-> "Ok", err |-> "", feeds |-> {}, val |-> Some(parsed)]

\* Config::from_reader.  too_fast_feeds is a Vec filled from the keys of a
\* HashMap: every name once, in no particular order, so a set here.
FromReader(toml) ==
    LET parsed == [f \in DOMAIN toml |-> DeserializeFeed(toml[f])]
        too_fast_feeds ==
            {f \in DOMAIN parsed : parsed[f].poll_interval_secs < MinPollIntervalSecs}
    IN  IF too_fast_feeds /= {}
        THEN [tag |-> "Err", err |-> "PollIntervalTooFastError", feeds |-> too_fast_feeds,
              val |-> None]
        ELSE [tag |-> "Ok", err |-> "", feeds |-> {}, val |-> Some(parsed)]

\* Config::from_reader(file): the configuration in use is the one returned.
CallFromReader(toml) ==
    /\ LET res == FromReader(toml)
       IN  /\ call' = [op |-> "from_reader", url |-> "", stats |-> None, entry |-> None,
                       arg |-> toml, ret |-> Some(res), before |-> {}]
           /\ config' = IF res.tag = "Ok" THEN res.val[1] ELSE config
    /\ UNCHANGED <<feeds, entries, reader, poll, cycle>>

\* Nothing has been loaded yet.
InitConfig ==
    /\ feeds = {}
    /\ entries = {}
    /\ config = <<>>
    /\ reader = "storage"
    /\ poll = [p \in {"main"} |-> IdlePoll]
    /\ call = NoCall
    /\ cycle = NoCycle

NextConfig ==
    \/ \E toml \in TomlDocs : CallFromReader(toml)

SpecConfig == InitConfig /\ [][NextConfig]_vars

-----------------------------------------------------------------------------
(* The `loop` of src/src/main.rs with the hand-over of a fetched feed's    *)
(* entries to entry_to_epub (src/src/transformer.rs).                      *)

\* How many entries a served document has at most in the runs of the driver.
MaxHandOffs == 2

\* What the file system does during one conversion.  An error of the epub
\* builder leaves entry_to_epub through `?` the way a failed File::create does.
EpubOutcomes == {"ok", "file_create_fails"}

\* transformer.rs entry_to_epub: the html is extracted first (`?`), an entry
\* without a title is an error, File::create can fail.
EntryToEpub(feed_name, download_dir, fe, io) ==
    LET html == ExtractHtmlStringFromEntry(fe)
    IN  IF html.tag = "Err" THEN html.val
        ELSE IF fe.title = None THEN "TitleExtractionError"
        ELSE IF io = "file_create_fails" THEN "FileCreationError"
        ELSE "Ok"

\* What the servers answer to the driver: documents of entries that convert
\* (EntryA) and of entries that do not (EntryB has no title).
DriverResponses ==
    {resp \in HttpResponses :
        /\ resp.last_modified = None
        /\ resp.etag = None
        /\ resp.status /= 429
        /\ Len(resp.doc) <= MaxHandOffs
        /\ \A j \in DOMAIN resp.doc : resp.doc[j] \in {EntryA, EntryB}}

\* The feed document the poll that just returned handed to the driver, if any.
FeedData(p) ==
    IF poll[p].result /= None /\ poll[p].result[1].tag = "Ok" THEN poll[p].result[1].feed
    ELSE None

\* The conversions made so far for one feed in this turn of the loop.
EpubsOf(f) == SelectSeq(cycle.epubs, LAMBDA e : e.feed = f)

\* main.rs lines 62-69: for_each hands the next entry to entry_to_epub; an
\* Err is printed and the iteration goes on.
HandOff(p, io) ==
    /\ poll[p].pc = "done"
    /\ cycle.todo /= <<>>
    /\ FeedData(p) /= None
    /\ Len(EpubsOf(poll[p].feed)) < Len(FeedData(p)[1])
    /\ LET f == poll[p].feed
           fe == FeedData(p)[1][Len(EpubsOf(f)) + 1]
       IN  cycle' = [cycle EXCEPT
                        !.epubs = Append(@, [feed |-> f, entry |-> fe.id,
                                             res |-> EntryToEpub(f, config[f].download_dir,
                                                                 fe, io)])]
    /\ UNCHANGED <<feeds, entries, config, reader, poll, call>>

\* The entries of the returned feed have all been handed over.
HandedOver(p) ==
    IF FeedData(p) = None THEN TRUE
    ELSE Len(EpubsOf(poll[p].feed)) = Len(FeedData(p)[1])

\* A driver that leaves the entries of a feed once a conversion has failed.
DriverNextFeedOnFailure(p) ==
    /\ IF HandedOver(p) THEN TRUE
       ELSE \E i \in DOMAIN cycle.epubs :
                cycle.epubs[i].feed = poll[p].feed /\ cycle.epubs[i].res /= "Ok"
    /\ CycleCollect(p)

\* main.rs line 70: the body of the `for` ends and the next feed is taken.
DriverNextFeed(p) ==
    /\ HandedOver(p)
    /\ CycleCollect(p)

DriverTimes == {0, Max(Times)}

\* main.rs lines 25-39: the configuration is loaded, the feeds table is
\* created and the reader of src/src/feed_reader.rs is constructed.
InitDriver ==
    /\ feeds = {}
    /\ entries = {}
    /\ config = CycleConfig
    /\ reader = "legacy"
    /\ poll = [p \in {"main"} |-> IdlePoll]
    /\ call = NoCall
    /\ cycle = NoCycle

NextDriver ==
    \/ \E p \in Procs : At(p, {"idle"})
                        /\ \E order \in IterationOrders(DOMAIN config) : StartCycle(p, 0, order)
    \/ \E p \in Procs : At(p, {"idle"}) /\ \E wall \in DriverTimes : LegacyCyclePoll(p, wall)
    \/ \E p \in Procs : At(p, {"await"}) /\ TransportFailure(p)
    \/ \E p \in Procs : At(p, {"await"})
                        /\ \E resp \in DriverResponses : LegacyRespond(p, resp, poll[p].now)
    \/ \E p \in Procs : At(p, {"classify"}) /\ LegacyClassify(p)
    \/ \E p \in Procs : At(p, {"done"}) /\ \E io \in EpubOutcomes : HandOff(p, io)
    \/ \E p \in Procs : At(p, {"done"}) /\ DriverNextFeed(p)

SpecDriver == InitDriver /\ [][NextDriver]_vars

-----------------------------------------------------------------------------
(* Two FeedReaders of src/src/feed_reader/mod.rs on one database file,     *)
(* each polling a feed of its own; their steps interleave.                 *)

\* The feed a process polls.
FeedOf(p) == IF p = "main" THEN "blog" ELSE "news"

\* What the two servers answer: a document with one entry under an ETag, a
\* bare 304, or a 500.
ConcurrentResponses ==
    {resp \in HttpResponses :
        /\ resp.last_modified = None
        /\ \/ resp.status = 200 /\ resp.etag = Some("e1") /\ resp.doc = <<EntryA>>
           \/ resp.status = 304 /\ resp.etag = None
           \/ resp.status = 500}

\* The instants the two readers are called with and read off the clock.
ConcurrentTimes == {0, Max(Times)}

InitConcurrent ==
    /\ feeds = {}
    /\ entries = {}
    /\ config = CycleConfig
    /\ reader = "storage"
    /\ poll = [p \in Procs |-> IdlePoll]
    /\ call = NoCall
    /\ cycle = NoCycle

NextConcurrent ==
    \/ \E p \in Procs : At(p, {"idle"}) /\ \E now \in ConcurrentTimes : Load(p, FeedOf(p), now)
    \/ \E p \in Procs : At(p, {"create"}) /\ Create(p)
    \/ \E p \in Procs : At(p, {"gate"}) /\ Gate(p)
    \/ \E p \in Procs : At(p, {"await"}) /\ TransportFailure(p)
    \/ \E p \in Procs : At(p, {"await"}) /\ \E resp \in ConcurrentResponses : Respond(p, resp)
    \/ \E p \in Procs : At(p, {"ingest"}) /\ Ingest(p)
    \/ \E p \in Procs : At(p, {"ingest"}) /\ \E wall \in ConcurrentTimes : Save(p, wall)
    \/ \E p \in Procs : At(p, {"done"}) /\ Return(p)

SpecConcurrent == InitConcurrent /\ [][NextConcurrent]_vars

-----------------------------------------------------------------------------
(* Properties of a poll, read off the state in which fetch_feed returns.   *)

\* The polls that have returned and not yet been forgotten.
Returned == {p \in DOMAIN poll : poll[p].pc = "done"}

UrlOf(p) == config[poll[p].feed].url

ResultOf(p) == poll[p].result[1]

\* The response of a returned poll has one of the given statuses.
Answered(p, statuses) ==
    poll[p].response /= None /\ poll[p].response[1].status \in statuses

LastFetchedOf(statsOpt) == IF statsOpt = None THEN None ELSE statsOpt[1].last_fetched

\* The due-ness test a poll at `now` would make of the given stored stats.
WouldSkip(statsOpt, now) == statsOpt /= None /\ FetchedRecently(statsOpt[1], now)

\* C1: whenever the store's last_fetched for the feed is present and the
\* poll's `now` is less than the feed's poll_interval_secs after it,
\* fetch_feed sends no HTTP request and returns Ok(None).
C1_GateUsesConfiguredInterval ==
    \A p \in DOMAIN poll :
        (/\ reader = "storage"
         /\ poll[p].pc /= "idle"
         /\ LastFetchedOf(poll[p].pre) /= None
         /\ poll[p].now - LastFetchedOf(poll[p].pre)[1] < config[poll[p].feed].poll_interval_secs)
        => /\ poll[p].request = None
           /\ p \in Returned => ResultOf(p) = Ok(None)

\* C2: when a poll that was due is answered 304 with an ETag, then on return
\* the stored etag is that token, the stored last_fetched is the poll's time,
\* and the entries table is as it was.
C2_NotModifiedRefreshesCache ==
    \A p \in Returned :
        (/\ reader = "storage"
         /\ Answered(p, {304})
         /\ poll[p].response[1].etag /= None)
        => /\ StoredStats(feeds, UrlOf(p)) /= None
           /\ StoredStats(feeds, UrlOf(p))[1].etag = poll[p].response[1].etag
           /\ StoredStats(feeds, UrlOf(p))[1].last_fetched = Some(poll[p].now)
           /\ entries = poll[p].pre_entries

\* C3: when a poll is answered 429, the stored last_fetched of the feed on
\* return is what it was when the poll began (absent, or the same timestamp),
\* so the due-ness test of the next poll comes out as it would have.
C3_RateLimitKeepsLastFetched ==
    \A p \in Returned :
        Answered(p, {429})
        => /\ LastFetchedOf(StoredStats(feeds, UrlOf(p))) = LastFetchedOf(poll[p].pre)
           /\ \A now \in Times :
                WouldSkip(StoredStats(feeds, UrlOf(p)), now) = WouldSkip(poll[p].pre, now)

\* A poll of a feed fetched before has been answered 429 and has returned.
C3_Witness ==
    \E p \in Returned : Answered(p, {429}) /\ LastFetchedOf(poll[p].pre) /= None

\* C9: a poll answered 304 or 429 returns Ok(None).
C9_NotModifiedAndRateLimitedAreSkipped ==
    \A p \in Returned : Answered(p, {304, 429}) => ResultOf(p) = Ok(None)


\* The poll was answered with a feed document that parsed.
AnsweredFresh(p) ==
    Answered(p, {200}) /\ poll[p].response[1].parses

DocOf(p) == poll[p].response[1].doc

\* The conversion of entry i of the poll's document, for the feed's row id.
ConversionOf(p, i) == EntryFromFeedEntry(poll[p].feed_stats[1].id, DocOf(p)[i])

\* Every entry of the document whose conversion succeeds has a row written by
\* this poll, and this poll wrote no other row.
ConvertibleEntriesStored(p) ==
    /\ \A i \in 1..Len(DocOf(p)) :
            ConversionOf(p, i).tag = "Ok"
            => \E r \in entries \ poll[p].pre_entries :
                    EntryOfRow(r) = ConversionOf(p, i).val[1]
    /\ Cardinality(entries) =
            Cardinality(poll[p].pre_entries)
            + Cardinality({i \in 1..Len(DocOf(p)) : ConversionOf(p, i).tag = "Ok"})

\* C7: a fresh poll in which the conversion of some entry fails still writes
\* every entry whose conversion succeeds and still returns the parsed feed.
C7_ConversionFailureIsolated ==
    \A p \in Returned :
        (/\ reader = "storage"
         /\ AnsweredFresh(p)
         /\ \E i \in 1..Len(DocOf(p)) : ConversionOf(p, i).tag = "Err")
        => /\ ResultOf(p) = Ok(Some(DocOf(p)))
           /\ ConvertibleEntriesStored(p)

\* A poll has returned a document of three entries of which the second
\* failed conversion and the first and third were written.
C7_Witness ==
    \E p \in Returned :
        /\ reader = "storage"
        /\ AnsweredFresh(p)
        /\ Len(DocOf(p)) = 3
        /\ ConversionOf(p, 1).tag = "Ok"
        /\ ConversionOf(p, 2).tag = "Err"
        /\ ConversionOf(p, 3).tag = "Ok"
        /\ DocOf(p)[1] /= DocOf(p)[3]
        /\ Cardinality(entries) = 2

\* C8: a poll answered with fresh data that parses returns the parsed feed;
\* on return every convertible entry is stored, the stored validators are the
\* ones the response supplied, and the stored last_fetched is the poll's `now`.
C8_FreshPathRecordsNow ==
    \A p \in Returned :
        (reader = "storage" /\ AnsweredFresh(p))
        => /\ ResultOf(p) = Ok(Some(DocOf(p)))
           /\ ConvertibleEntriesStored(p)
           /\ LET stored == StoredStats(feeds, UrlOf(p))[1]
                  resp == poll[p].response[1]
              IN  /\ resp.last_modified /= None => stored.last_modified = resp.last_modified
                  /\ resp.etag /= None => stored.etag = resp.etag
                  /\ stored.last_fetched = Some(poll[p].now)

-----------------------------------------------------------------------------
(* Properties of the Storage methods, read off the state after a call.     *)

\* C4: no two rows of the entries table hold the same (feed_id, feed_entry_id).
C4_OneRowPerEntryKey ==
    \A r1, r2 \in entries :
        (/\ r1.feed_id = r2.feed_id
         /\ r1.feed_entry_id /= None
         /\ r1.feed_entry_id = r2.feed_entry_id)
        => r1 = r2

Saved == call.op = "feed_stats_to_db"

\* C5 as claimed: feed_stats_to_db(stats) then feed_stats_from_db(stats.url)
\* returns Some(stats), the id included.
C5_RoundTripKeepsId ==
    Saved => FeedStatsFromDb(feeds, call.url) = [tag |-> "Ok", val |-> call.stats]

\* C5 as amended: the value read back equals stats in url, last_modified,
\* last_fetched and etag, and its id is the id of the URL's row in the store,
\* whatever id stats carried.
C5_RoundTripUpToId ==
    Saved =>
        LET got == FeedStatsFromDb(feeds, call.url)
        IN  /\ got.tag = "Ok"
            /\ got.val /= None
            /\ got.val[1] = [call.stats[1] EXCEPT !.id = got.val[1].id]
            /\ \E r \in feeds : r.id = got.val[1].id /\ r.feed_url = call.url
            /\ (got.val = call.stats) <=> (call.stats[1].id = SelectIdOfUrl(feeds, call.url)[1])

\* A FeedStats with every field populated has been saved under an id other
\* than the one it carried.
C5_Witness ==
    /\ Saved
    /\ call.stats[1].last_modified /= None
    /\ call.stats[1].etag /= None
    /\ call.stats[1].last_fetched /= None
    /\ call.stats[1].last_fetched[1] > 0
    /\ FeedStatsFromDb(feeds, call.url).val /= call.stats

\* C6: saving the FeedStats just saved once more leaves the feeds table as it
\* is, and reading the URL back yields the validators and the last_fetched of
\* that save.
C6_SaveIsIdempotent ==
    Saved =>
        /\ FeedStatsToDb(feeds, call.stats[1]) = feeds
        /\ LET got == FeedStatsFromDb(feeds, call.url).val
           IN  /\ got /= None
               /\ got[1].last_modified = call.stats[1].last_modified
               /\ got[1].etag = call.stats[1].etag
               /\ got[1].last_fetched = call.stats[1].last_fetched

\* A save has overwritten one of two rows.
C6_Witness ==
    /\ Saved
    /\ Cardinality(feeds) = 2
    /\ call.stats[1].etag /= None
    /\ call.stats[1].last_fetched = None

\* C10: feed_stats_from_db returns Ok(None) for a URL no row holds and
\* Ok(Some(_)) for a URL a row holds.
C10_AbsenceIsNotAnError ==
    call.op = "feed_stats_from_db" =>
        /\ call.ret[1].tag = "Ok"
        /\ (call.ret[1].val = None) <=> (RowsOfUrl(feeds, call.url) = {})

\* feed_stats_from_db has been asked for a URL without a row while another
\* URL has one.
C10_Witness ==
    /\ call.op = "feed_stats_from_db"
    /\ RowsOfUrl(feeds, call.url) = {}
    /\ feeds /= {}
    /\ call.ret[1] = [tag |-> "Ok", val |-> None]

-----------------------------------------------------------------------------
(* Properties of a poll against a store whose operations may fail.         *)

\* C11: a poll whose read of the feed's cache metadata failed has returned an
\* error, has sent no HTTP request, and has left the feed's rows as they were.
C11_ReadErrorsPropagate ==
    \A p \in DOMAIN poll :
        "read" \in poll[p].fault
        => /\ poll[p].request = None
           /\ p \in Returned
           /\ ResultOf(p).tag = "Err"
           /\ RowsOfUrl(feeds, UrlOf(p)) = {} <=> poll[p].pre = None

\* C12: a fresh poll of which a store write failed (an entry's row or the
\* FeedStats save) does not return Ok.
C12_WriteErrorsFailThePoll ==
    \A p \in Returned :
        (reader = "storage" /\ poll[p].fault \cap {"entry_write", "stats_write"} /= {})
        => ResultOf(p).tag = "Err"

-----------------------------------------------------------------------------
(* Further properties of the Storage methods.                              *)

\* C13: after feed_stats_to_db(stats) the row read for stats.url holds
\* exactly the last_modified, etag and last_fetched of stats; a field absent
\* in stats is NULL in the row whatever the row held before.
C13_SaveOverwritesEveryField ==
    Saved =>
        LET r == FirstRowOfUrl(feeds, call.url)
            fs == call.stats[1]
        IN  /\ RowsOfUrl(feeds, call.url) /= {}
            /\ r.last_modified = fs.last_modified
            /\ r.etag = fs.etag
            /\ (r.last_fetched = None) <=> (fs.last_fetched = None)
            /\ FeedStatsOfRow(r, call.url).last_fetched = fs.last_fetched

\* A save with every optional field absent has gone over a row that held an
\* etag, a last_modified and a last_fetched.
C13_Witness ==
    /\ Saved
    /\ RowsOfUrl(call.before, call.url) /= {}
    /\ LET old == FirstRowOfUrl(call.before, call.url)
       IN  old.etag /= None /\ old.last_modified /= None /\ old.last_fetched /= None
    /\ call.stats[1].etag = None
    /\ call.stats[1].last_modified = None
    /\ call.stats[1].last_fetched = None
    /\ FirstRowOfUrl(feeds, call.url).etag = None

\* C14: no two rows of the feeds table hold the same feed_url.
C14_UrlIsUnique ==
    \A r1, r2 \in feeds : r1.feed_url = r2.feed_url => r1 = r2

\* C15: a step of the store never changes the id under which a URL that has
\* a row is read back, whatever the call and whatever id a saved FeedStats
\* carries.
C15_FeedIdIsStable ==
    [][\A url \in Urls :
            RowsOfUrl(feeds, url) /= {}
            => /\ RowsOfUrl(feeds', url) /= {}
               /\ FirstRowOfUrl(feeds', url).id = FirstRowOfUrl(feeds, url).id]_vars

\* A FeedStats carrying another id than its URL's row has been saved over
\* that row while another URL has a row too, and the row kept its id.
C15_Witness ==
    /\ Saved
    /\ RowsOfUrl(call.before, call.url) /= {}
    /\ call.stats[1].id /= FirstRowOfUrl(call.before, call.url).id
    /\ \E r \in feeds : r.feed_url /= call.url
    /\ FirstRowOfUrl(feeds, call.url).id = FirstRowOfUrl(call.before, call.url).id

\* C16: new_feed_stats_to_db(url) returns Ok with the row it has just
\* inserted: a row under an id the table did not hold before, with
\* last_modified, etag and last_fetched absent.
C16_NewFeedReturnsItsBareRow ==
    call.op = "new_feed_stats_to_db" =>
        /\ call.ret[1].tag = "Ok"
        /\ LET got == call.ret[1].val[1]
           IN  /\ got.id \notin {r.id : r \in call.before}
               /\ got.url = call.url
               /\ got.last_modified = None
               /\ got.etag = None
               /\ got.last_fetched = None

-----------------------------------------------------------------------------
(* Properties of a pass over the configured feeds.                         *)

\* C17: with the reader of feed_reader/mod.rs, polls of a feed not
\* overlapping, the feeds table holds exactly one row for the URL of every
\* feed that has been polled, no URL has two rows, and the row of a feed is
\* there once the request of its poll exists, whatever the fetch then does.
C17_OneRowPerPolledUrl ==
    reader = "storage" =>
        /\ \A f \in cycle.seen : Cardinality(RowsOfUrl(feeds, config[f].url)) = 1
        /\ \A p \in DOMAIN poll :
                poll[p].request /= None => Cardinality(RowsOfUrl(feeds, UrlOf(p))) = 1
        /\ \A url \in Urls : Cardinality(RowsOfUrl(feeds, url)) <= 1

\* Both feeds have been polled, the fetch of one of them having failed, and
\* each has its row.
C17_Witness ==
    /\ reader = "storage"
    /\ cycle.seen = DOMAIN config
    /\ \E i \in DOMAIN cycle.polled : cycle.polled[i].result = Err("HTTPError")
    /\ Cardinality(feeds) = 2

\* The polls of the pass that returned a parsed feed, in the order made.
PolledWithFeed ==
    SelectSeq(cycle.polled, LAMBDA r : r.result.tag = "Ok" /\ r.result.feed /= None)

\* C20: in a pass no feed is polled twice, a pass that has ended has polled
\* every configured feed whatever the polls returned, and the list handed
\* back holds exactly the parsed feeds of the polls that returned one.
C20_EveryFeedPolledOnce ==
    /\ \A i, j \in DOMAIN cycle.polled :
            i /= j => cycle.polled[i].feed /= cycle.polled[j].feed
    /\ (cycle.todo = <<>> /\ cycle.polled /= <<>>)
            => {cycle.polled[i].feed : i \in DOMAIN cycle.polled} = DOMAIN config
    /\ cycle.out = [i \in 1..Len(PolledWithFeed) |-> PolledWithFeed[i].result.feed[1]]

\* A pass has ended in which the first poll returned an error and the second
\* a parsed feed with an entry, which alone is in the list.
C20_Witness ==
    /\ cycle.todo = <<>>
    /\ Len(cycle.polled) = 2
    /\ cycle.polled[1].result.tag = "Err"
    /\ cycle.polled[2].result = Ok(Some(<<EntryA>>))
    /\ cycle.out = <<(<<EntryA>>)>>

-----------------------------------------------------------------------------
(* Properties of the request and of the classification of its answer.      *)

\* The outcome the status code of an answer stands for.
ClassOfStatus(status) ==
    IF status = 304 THEN "not_modified"
    ELSE IF status = 429 THEN "rate_limited"
    ELSE IF status < 400 THEN "fresh"
    ELSE "transport_error"

\* C18: the answer of a poll is dealt with as its status alone says: 304 as
\* not modified, 429 as rate limited, any other status below 400 as fresh,
\* any other status as a transport error, which is returned with nothing
\* parsed and nothing ingested.
C18_ClassifiedByStatus ==
    \A p \in DOMAIN poll :
        (reader = "storage" /\ poll[p].response /= None)
        => /\ poll[p].arm = ClassOfStatus(poll[p].response[1].status)
           /\ poll[p].arm = "transport_error"
                => /\ p \in Returned
                   /\ ResultOf(p) = Err("HTTPError")
                   /\ poll[p].feed_data = None
                   /\ entries = poll[p].pre_entries

\* The validator of the given kind in what the store held for the feed.
StoredValidator(statsOpt, kind) ==
    IF statsOpt = None THEN None
    ELSE IF kind = "ETag" THEN statsOpt[1].etag
    ELSE statsOpt[1].last_modified

\* C19: the request of a poll carries the stored validator of the feed's
\* conditional kind, under the header of that kind and with the stored token
\* as its value, and no validator header when that validator is absent, the
\* other validator being stored or not.
C19_SelectedValidatorOnly ==
    \A p \in DOMAIN poll :
        poll[p].request /= None
        => LET kind == config[poll[p].feed].conditional_type
               token == StoredValidator(poll[p].pre, kind)
               header == poll[p].request[1].header
           IN  /\ token = None => header = None
               /\ token /= None
                    => /\ header /= None
                       /\ header[1][1] = (IF kind = "ETag" THEN "ETag" ELSE "If-Modified-Since")
                       /\ header[1][2] = token[1]

\* A request without a validator header has been made for a feed whose
\* selected validator is absent while the other one is stored.
C19_Witness ==
    \E p \in DOMAIN poll :
        /\ poll[p].request /= None
        /\ poll[p].request[1].header = None
        /\ poll[p].pre /= None
        /\ StoredValidator(poll[p].pre, config[poll[p].feed].conditional_type) = None
        /\ \E kind \in {"ETag", "LastModified"} : StoredValidator(poll[p].pre, kind) /= None

-----------------------------------------------------------------------------
(* Properties of the steps around the fetch.                               *)

\* C24: a poll whose create_dir_all failed goes through the due-ness test
\* and the fetch as any poll does: it has a request exactly when the feed
\* was due, returns Ok(None) when it was not, and a fresh answer is stored
\* with its entries and a last_fetched.
C24_DirFailureDoesNotStopPoll ==
    \A p \in DOMAIN poll :
        poll[p].dir = "failed"
        => /\ (poll[p].request /= None) <=> ~WouldSkip(poll[p].pre, poll[p].now)
           /\ poll[p].request = None => (p \in Returned /\ ResultOf(p) = Ok(None))
           /\ (p \in Returned /\ reader = "storage" /\ AnsweredFresh(p))
                => /\ ResultOf(p) = Ok(Some(DocOf(p)))
                   /\ ConvertibleEntriesStored(p)
                   /\ LastFetchedOf(StoredStats(feeds, UrlOf(p))) /= None
           /\ (reader = "legacy" /\ poll[p].pc = "classify")
                => LastFetchedOf(StoredStats(feeds, UrlOf(p))) /= None

\* A poll whose create_dir_all failed has fetched a document with an entry,
\* stored it and returned it.
C24_Witness ==
    \E p \in Returned :
        /\ poll[p].dir = "failed"
        /\ reader = "storage"
        /\ AnsweredFresh(p)
        /\ entries /= poll[p].pre_entries
        /\ ResultOf(p) = Ok(Some(DocOf(p)))

\* C21: a poll of a feed that has a row without last_fetched is past the
\* due-ness test with a request, whatever its `now`.
C21_AbsentLastFetchedIsDue ==
    \A p \in DOMAIN poll :
        (/\ poll[p].pc \notin {"idle", "create", "gate"}
         /\ poll[p].pre /= None
         /\ LastFetchedOf(poll[p].pre) = None)
        => poll[p].request /= None

\* The reader of feed_reader.rs has a request out for a feed whose row has
\* no last_fetched, at the latest `now`.
C21_Witness ==
    \E p \in DOMAIN poll :
        /\ reader = "legacy"
        /\ poll[p].pre /= None
        /\ LastFetchedOf(poll[p].pre) = None
        /\ poll[p].now = Max(Times)
        /\ poll[p].request /= None

-----------------------------------------------------------------------------
(* Properties of polls of distinct feeds that interleave.                  *)

\* The entries rows that belong to the feeds rows of a URL.
EntriesOfUrl(entryTable, feedTable, url) ==
    {e \in entryTable : e.feed_id \in {r.id : r \in RowsOfUrl(feedTable, url)}}

\* A step that is not a step of process p leaves the feeds row and the
\* entries of p's feed as they are.
OthersLeaveFeedAlone ==
    \A p \in DOMAIN poll :
        poll'[p] = poll[p]
        => /\ RowsOfUrl(feeds', config[FeedOf(p)].url) = RowsOfUrl(feeds, config[FeedOf(p)].url)
           /\ EntriesOfUrl(entries', feeds', config[FeedOf(p)].url)
                = EntriesOfUrl(entries, feeds, config[FeedOf(p)].url)

\* What a returned poll leaves in the store is what it alone read, fetched
\* and wrote: the FeedStats it saved and its own converted entries after a
\* fresh answer, the FeedStats it started from otherwise.
StoredIsOwnOutcome(p) ==
    LET url == UrlOf(p)
        own == EntriesOfUrl(entries, feeds, url)
        before == EntriesOfUrl(poll[p].pre_entries, feeds, url)
    IN  IF AnsweredFresh(p)
        THEN /\ StoredStats(feeds, url) = poll[p].feed_stats
             /\ before \subseteq own
             /\ Cardinality(own \ before)
                  = Cardinality({i \in 1..Len(DocOf(p)) : ConversionOf(p, i).tag = "Ok"})
             /\ \A e \in own \ before :
                    \E i \in 1..Len(DocOf(p)) :
                        ConversionOf(p, i).tag = "Ok" /\ EntryOfRow(e) = ConversionOf(p, i).val[1]
        ELSE /\ own = before
             /\ LET stored == StoredStats(feeds, url)[1]
                IN  /\ stored.last_modified = IF poll[p].pre = None THEN None
                                              ELSE poll[p].pre[1].last_modified
                    /\ stored.etag = IF poll[p].pre = None THEN None ELSE poll[p].pre[1].etag
                    /\ stored.last_fetched = LastFetchedOf(poll[p].pre)

\* C22: while polls of two feeds interleave, no step of the one poll changes
\* the feeds row or the entries of the other feed, and what each poll leaves
\* stored for its feed is the outcome of that poll alone.
C22_DistinctFeedsIndependent ==
    /\ [](\A p \in Returned : StoredIsOwnOutcome(p))
    /\ [][OthersLeaveFeedAlone]_vars

\* Both polls have returned a fresh feed with its entry stored, each having
\* begun on the empty store, that is before the other wrote anything.
C22_Witness ==
    /\ Returned = Procs
    /\ \A p \in Procs : AnsweredFresh(p) /\ ResultOf(p).tag = "Ok"
    /\ \A p \in Procs : poll[p].pre = None /\ poll[p].pre_entries = {}
    /\ Cardinality(feeds) = 2
    /\ Cardinality(entries) = 2

-----------------------------------------------------------------------------
(* Properties of the order of the steps of a poll.                         *)

\* The validators and the last_fetched the store holds for a URL; all absent
\* when it has no row.
StoredBookkeeping(table, url) ==
    LET stats == StoredStats(table, url)
    IN  IF stats = None
        THEN [last_modified |-> None, etag |-> None, last_fetched |-> None]
        ELSE [last_modified |-> stats[1].last_modified, etag |-> stats[1].etag,
              last_fetched |-> stats[1].last_fetched]

\* What a poll found stored when it began.
BookkeepingAtStart(p) ==
    IF poll[p].pre = None
    THEN [last_modified |-> None, etag |-> None, last_fetched |-> None]
    ELSE [last_modified |-> poll[p].pre[1].last_modified, etag |-> poll[p].pre[1].etag,
          last_fetched |-> poll[p].pre[1].last_fetched]

\* C23: a poll that has a request has read the feed's FeedStats, and as long
\* as the answer of a poll has not been received and classified the stored
\* validators and last_fetched of its feed are those the poll began with.
C23_ReadThenFetchThenWrite ==
    \A p \in DOMAIN poll :
        /\ (reader = "storage" /\ poll[p].request /= None) => poll[p].feed_stats /= None
        /\ (poll[p].pc /= "idle" /\ poll[p].arm = "")
                => StoredBookkeeping(feeds, UrlOf(p)) = BookkeepingAtStart(p)

-----------------------------------------------------------------------------
(* Properties of init_database and of reading an entry back.               *)

\* C25: init_database on a store that already has its tables changes no row
\* of feeds or entries, and calling it again changes nothing either.
C25_InitDatabaseIdempotent ==
    [][call'.op = "init_database"
        => /\ feeds' = feeds
           /\ entries' = entries
           /\ CreateTableIfNotExists(TRUE, feeds') = feeds'
           /\ CreateTableIfNotExists(TRUE, entries') = entries'
           /\ call'.ret = Some([tag |-> "Ok", val |-> None])]_vars

C25_Witness ==
    /\ call.op = "init_database"
    /\ feeds /= {}
    /\ entries /= {}

\* C26: entry_from_db(id) is the entry most recently written with
\* feed_entry_id = id, and an error when no entry has that id.
C26_ReadsBackLastWritten ==
    /\ (call.op = "new_entry_to_db" /\ call.entry[1].feed_entry_id /= None)
            => EntryFromDb(entries, call.entry[1].feed_entry_id[1])
                    = [tag |-> "Ok", val |-> call.entry]
    /\ (call.op = "entry_from_db" /\ RowsOfEntryId(entries, call.arg) = {})
            => call.ret[1].tag = "Err"

-----------------------------------------------------------------------------
(* Properties of the driver's hand-over to the entry converter.            *)

\* The feed_rs ids of the entries of a document, in order.
IdsOf(doc) == [j \in DOMAIN doc |-> doc[j].id]

\* C27: when the driver has left a feed that came back fresh, entry_to_epub
\* has been called once for every entry of it, in order, whatever the calls
\* returned; and a turn of the loop that has ended has polled every
\* configured feed, whatever the conversions returned.
C27_HandOffIsolated ==
    /\ \A i \in DOMAIN cycle.polled :
            LET r == cycle.polled[i]
            IN  (r.result.tag = "Ok" /\ r.result.feed /= None)
                    => [j \in DOMAIN EpubsOf(r.feed) |-> EpubsOf(r.feed)[j].entry]
                            = IdsOf(r.result.feed[1])
    /\ (cycle.todo = <<>> /\ cycle.polled /= <<>>)
            => {cycle.polled[i].feed : i \in DOMAIN cycle.polled} = DOMAIN config

C27_Witness ==
    /\ cycle.todo = <<>>
    /\ Len(cycle.polled) = 2
    /\ Len(cycle.epubs) = 2 * MaxHandOffs
    /\ cycle.epubs[1].res /= "Ok"
    /\ cycle.epubs[2].res = "Ok"
    /\ cycle.epubs[2].feed = cycle.epubs[1].feed
    /\ cycle.epubs[3].res /= "Ok"
    /\ cycle.epubs[4].res = "Ok"

-----------------------------------------------------------------------------
(* Termination of a poll.                                                  *)

\* C28: every fetch_feed that has begun returns (skipped, a feed or an
\* error), whatever the server does, a server that never answers included.
C28_EveryPollReturns ==
    \A p \in {"main"} : (poll[p].pc /= "idle") ~> (poll[p].pc = "done")

-----------------------------------------------------------------------------
(* Properties of loading the configuration.                                *)

\* The feeds of a configuration file that state an interval under one hour.
StatedTooFast(toml) ==
    {f \in DOMAIN toml : /\ toml[f].poll_interval_secs /= None
                         /\ toml[f].poll_interval_secs[1] < SecsPerHour}

\* C29: from_reader fails with PollIntervalTooFastError exactly when some feed
\* states a poll_interval_secs under 3600, the error names exactly those
\* feeds, and a feed that states none is accepted with 14400.
C29_TooFastFeedsRejected ==
    call.op = "from_reader" =>
        LET toml == call.arg
            res == call.ret[1]
        IN  /\ (res.tag = "Err") <=> (StatedTooFast(toml) /= {})
            /\ res.tag = "Err" => /\ res.err = "PollIntervalTooFastError"
                                  /\ res.feeds = StatedTooFast(toml)
            /\ res.tag = "Ok" =>
                    /\ config = res.val[1]
                    /\ \A f \in DOMAIN toml :
                            toml[f].poll_interval_secs = None
                                => config[f].poll_interval_secs = 4 * SecsPerHour

C29_Witness ==
    /\ call.op = "from_reader"
    /\ call.ret[1].tag = "Err"
    /\ call.ret[1].feeds /= {}
    /\ \E f \in DOMAIN call.arg : call.arg[f].poll_interval_secs = None
    /\ \E f \in DOMAIN call.arg : call.arg[f].poll_interval_secs = Some(MinPollIntervalSecs)
    /\ config /= <<>>

-----------------------------------------------------------------------------
(* Pacing of the requests to one feed.                                     *)

\* C30: once a poll of a feed was answered with a document or with 304 at
\* time t, a poll of that feed made at t or later sends a request only when
\* the feed's poll_interval_secs have gone by since t.
C30_NoHotLooping ==
    \A p \in DOMAIN poll :
        (/\ poll[p].request /= None
         /\ cycle.polled /= <<>>
         /\ cycle.polled[1].feed = poll[p].feed
         /\ poll[p].now >= cycle.polled[1].at)
        => poll[p].now - cycle.polled[1].at >= config[poll[p].feed].poll_interval_secs

-----------------------------------------------------------------------------
(* Properties of the order of the two writes of a fresh poll.              *)

\* The poll has moved the stored last_fetched of its feed, or has returned
\* the feed after saving it.
LastFetchedAdvanced(p) ==
    \/ StoredBookkeeping(feeds, UrlOf(p)).last_fetched /= BookkeepingAtStart(p).last_fetched
    \/ /\ poll[p].pc = "done"
       /\ ResultOf(p).tag = "Ok"
       /\ ResultOf(p).feed /= None

\* C31: in a poll answered with a document that parses, last_fetched is
\* advanced only once every convertible entry of the document has its row;
\* while the entries are being written the stored last_fetched is still the
\* one the poll began with, so a poll that stops there is not gated next time.
C31_EntriesBeforeLastFetched ==
    \A p \in DOMAIN poll :
        (reader = "storage" /\ poll[p].pc /= "idle" /\ AnsweredFresh(p))
        => /\ LastFetchedAdvanced(p) => ConvertibleEntriesStored(p)
           /\ poll[p].pc = "ingest"
                => StoredBookkeeping(feeds, UrlOf(p)).last_fetched
                        = BookkeepingAtStart(p).last_fetched

-----------------------------------------------------------------------------
(* Properties of what a poll leaves in the store.                          *)

\* C32: a poll that returns a transport error (no response, or a status of
\* 400 or more) leaves the stored last_modified, etag and last_fetched of its
\* feed and the entries table as they were when it began, a bare row apart;
\* the feed, which was due, is due still.
C32_TransportErrorKeepsCache ==
    \A p \in Returned :
        (ResultOf(p).tag = "Err" /\ ResultOf(p).err = "HTTPError")
        => /\ StoredBookkeeping(feeds, UrlOf(p)) = BookkeepingAtStart(p)
           /\ entries = poll[p].pre_entries
           /\ poll[p].request /= None
           /\ reader = "storage" => ~WouldSkip(StoredStats(feeds, UrlOf(p)), poll[p].now)
           /\ reader = "legacy"
                => ~FetchedRecently([last_fetched |-> GetLastFetched(feeds, UrlOf(p))],
                                    poll[p].now)

C32_Witness ==
    \E p \in Returned :
        /\ ResultOf(p).err = "HTTPError"
        /\ poll[p].pre /= None
        /\ poll[p].pre[1].last_fetched /= None
        /\ poll[p].pre[1].etag /= None
        /\ entries /= {}

\* The poll was stopped by the due-ness test: it returned Ok(None) without
\* having built a request.
Skipped(p) ==
    /\ poll[p].pc = "done"
    /\ ResultOf(p) = Ok(None)
    /\ poll[p].request = None

\* C33: a poll stopped by the due-ness test has written nothing: the row of
\* its feed is the one it found, the entries table is the one it found, and
\* the step that ends it changes neither table.
C33_SkippedPollWritesNothing ==
    /\ [](\A p \in DOMAIN poll :
            Skipped(p) => /\ poll[p].pre /= None
                          /\ StoredStats(feeds, UrlOf(p)) = poll[p].pre
                          /\ entries = poll[p].pre_entries)
    /\ [][\A p \in DOMAIN poll :
            (poll'[p].pc = "done" /\ poll'[p].result = Some(Ok(None))
             /\ poll'[p].request = None)
            => (feeds' = feeds /\ entries' = entries)]_vars

C33_Witness ==
    \E p \in DOMAIN poll :
        /\ Skipped(p)
        /\ poll[p].pre[1].last_fetched /= None
        /\ entries /= {}

\* C34: a poll answered with a body that is not a feed returns the parse
\* error and leaves the store as it found it: no entry is written and the
\* stored validators and last_fetched are those the poll began with, whatever
\* validator headers the response carried.
C34_ParseFailureKeepsStore ==
    \A p \in Returned :
        (Answered(p, {200}) /\ ~poll[p].response[1].parses)
        => /\ ResultOf(p).tag = "Err"
           /\ ResultOf(p).err \in {"FeedParseError", "InvalidFeedDataError"}
           /\ entries = poll[p].pre_entries
           /\ StoredBookkeeping(feeds, UrlOf(p)) = BookkeepingAtStart(p)

\* C35: after a poll that returned a document, each of the stored
\* last_modified and etag is the value of the response's header when the
\* response has that header, and the value stored before the poll when it
\* has not.
C35_ValidatorsRetained ==
    \A p \in Returned :
        (ResultOf(p).tag = "Ok" /\ ResultOf(p).feed /= None)
        => LET resp == poll[p].response[1]
               stored == StoredBookkeeping(feeds, UrlOf(p))
               before == BookkeepingAtStart(p)
           IN  /\ stored.last_modified = IF resp.last_modified /= None
                                         THEN resp.last_modified ELSE before.last_modified
               /\ stored.etag = IF resp.etag /= None THEN resp.etag ELSE before.etag

-----------------------------------------------------------------------------
(* Properties of the entries table across polls.                           *)

\* C36: every row of the entries table carries the id of a row of the feeds
\* table, and the rows a poll has added carry the id of the row of the URL
\* that poll is for.
C36_EntriesOwnedByTheirFeed ==
    /\ \A e \in entries : \E r \in feeds : r.id = e.feed_id
    /\ \A p \in DOMAIN poll :
            poll[p].pc \in {"ingest", "done"}
            => \A e \in entries \ poll[p].pre_entries :
                    /\ RowsOfUrl(feeds, UrlOf(p)) /= {}
                    /\ e.feed_id = FirstRowOfUrl(feeds, UrlOf(p)).id

C36_Witness ==
    /\ cycle.todo = <<>>
    /\ Len(cycle.polled) = 2
    /\ \E e1, e2 \in entries : e1.feed_id /= e2.feed_id
    /\ \A r \in feeds : r.last_fetched /= None

\* The (feed_id, feed_entry_id) pairs that have a row.
EntryKeysOf(table) == {<<r.feed_id, r.feed_entry_id>> : r \in table}

\* C37: no step takes a (feed_id, feed_entry_id) pair out of the entries
\* table: a pair that has a row keeps having one.
C37_EntriesNeverDeleted ==
    [][EntryKeysOf(entries) \subseteq EntryKeysOf(entries')]_vars

C37_Witness ==
    /\ call.op = "new_entry_to_db"
    /\ Cardinality(entries) = MaxEntryRows
    /\ \E r1, r2 \in entries :
            /\ r1.id /= r2.id
            /\ r1.feed_id /= r2.feed_id
            /\ r1.feed_entry_id = r2.feed_entry_id
            /\ r1.feed_entry_id /= None

-----------------------------------------------------------------------------
(* Properties of the conversion of a feed entry.                           *)

\* C38: the converted entry's content is the content body when the feed
\* entry has content, else the whole summary; the conversion fails when the
\* content has no body or when there is neither content nor summary; the
\* converted summary is the feed entry's summary when that is at most 1000
\* bytes long and empty otherwise, whatever the content is.
C38_ContentAndSummaryRules ==
    call.op = "entry_from_feed_entry" =>
        LET fe == call.arg
            res == call.ret[1]
            fails == \/ fe.content /= None /\ fe.content[1].body = None
                     \/ fe.content = None /\ fe.summary = None
        IN  /\ (res.tag = "Err") <=> fails
            /\ res.tag = "Ok" =>
                /\ res.val[1].content = IF fe.content /= None THEN fe.content[1].body[1]
                                        ELSE fe.summary[1]
                /\ res.val[1].summary =
                        IF fe.summary /= None /\ ByteLen(fe.summary[1]) <= MaxSummaryLengthBytes
                        THEN fe.summary[1] ELSE ""

=============================================================================
